---- MODULE Spec2Model ----
(***************************************************************************)
(* A model of the tether admin front end: the ApiClient's token and 401    *)
(* handling (src/lib/api.ts), the uploads page with its UploadProgress     *)
(* poller (app/admin/uploads/page.tsx, components/upload-progress) and the *)
(* upload-detail page with its init sequence, VOP gate, polling loops and  *)
(* debtor table (app/admin/uploads/[id]/page.tsx).                         *)
(*                                                                         *)
(* Every async handler is cut at its awaits: one action per stretch of     *)
(* code that runs without suspension on the event loop.  Each part has its *)
(* own specifications (SpecApi; SpecUploads and SpecFiles; SpecDetail,     *)
(* SpecVop, SpecVopLive, SpecEdit and SpecList); the variables of the      *)
(* other parts keep their initial values.  SpecBusy takes the handlers of  *)
(* both pages that set a busy flag.                                        *)
(***************************************************************************)
EXTENDS Integers, Sequences, FiniteSets, TLC

VARIABLES
  \* ---- ApiClient (src/lib/api.ts)
  token,        \* ApiClient.token, the in-memory copy
  lsToken,      \* localStorage['auth_token']
  href,         \* window.location.href as last assigned
  navPending,   \* a hard navigation was requested and the page is not yet unloaded
  apiReqs,      \* fetches in flight
  apiLast,      \* history: the call that settled last
  apiDone,      \* history: how many calls have settled
  escaped       \* history: the handlers a rejected promise has escaped from

apiVars == <<token, lsToken, href, navPending, apiReqs, apiLast, apiDone,
             escaped>>

VARIABLES
  \* ---- UploadsPage (src/app/admin/uploads/page.tsx)
  file,            \* useState file
  isUploading,     \* useState isUploading
  uploadStatus,    \* useState uploadStatus, by its type ("done": success or warning)
  activeUploadId,  \* useState activeUploadId (0: null)
  uploadReq,       \* the file api.uploadFile was called with, while in flight
  listFetches,     \* fetchUploads() calls in flight
  dismissTimers,   \* the 3 s timeouts of handleProgressComplete: seconds left of
                   \* each, and the upload whose completion armed it
  srvStatus,       \* the backend's status of each upload
  \* ---- UploadProgress (src/unnamed/part_004)
  upSid,           \* the mounted (or last mounted) UploadProgress instance
  iv,              \* the live setInterval of the instance
  gets,            \* api.getUpload calls of fetchStatus in flight
  \* ---- history of the uploads part
  termSeen,        \* the instance's fetchStatus has read 'completed' or 'failed'
  cbCount,         \* callbacks the instance has made for a terminal status it read
  lateGets,        \* the instance issued a GET after it read a terminal status
  throwSeen,       \* a status fetch of the instance has thrown
  errGets,         \* the instance issued a GET after a status fetch of it threw
  orphanGets,      \* an instance issued a GET after it was unmounted
  silentReject,    \* a file was refused without an error status
  lastReject       \* why the file refused last was refused ("none": none yet)

upVars == <<file, isUploading, uploadStatus, activeUploadId,
            uploadReq, listFetches, dismissTimers, srvStatus, upSid, iv,
            gets, termSeen, cbCount, lateGets, throwSeen, errGets, orphanGets,
            silentReject,
            lastReject>>

VARIABLES
  \* ---- UploadDetailPage (src/app/admin/uploads/[id]/page.tsx)
  dtLive,        \* the page is mounted
  initPc,        \* where initPage stands: the request it awaits, or "done"
  allWait,       \* requests of initPage's Promise.all still in flight
  upload,        \* useState upload: loaded or not
  stats,         \* useState stats: NoReady (null), or its ready_for_sync
  vopStats,      \* useState vopStats
  billingStats,  \* useState billingStats: "null", "idle" or "processing"
  loading,       \* useState loading
  validating,    \* useState validating
  syncing,       \* useState syncing
  syncPc,        \* where handleSync stands: "idle", or the request it awaits
  verifyingVop,  \* useState verifyingVop
  verifyReqs,    \* api.verifyVop calls in flight
  toast,         \* the toast shown last
  vopLoops,      \* the timers handleVerifyVop has armed
  vopPolls,      \* fetchVopStats calls of those timers in flight
  billIv,        \* the billing effect's interval is live
  billPolls,     \* fetchBillingStats calls of that interval in flight
  billStale,     \* those of them issued before the interval now live was set
  \* ---- history of the detail part
  initIssued,    \* requests initPage has issued
  initOk,        \* requests of initPage that its awaits saw resolve
  initErr,       \* requests of initPage that its awaits saw reject
  syncCalls,     \* flips at every invocation of handleSync
  lastSync,      \* what the last invocation of handleSync did
  syncAnswer,    \* the backend's answer to the last sync request
  vopPollAt,     \* the latest time, since its loop was armed, a VOP timer polled
  vopClosed,     \* a VOP loop has run to its timeout
  vopIssued,     \* fetchVopStats calls the timers of each loop have made since
                 \* they were armed
  srvVopDone,    \* the backend has finished the verification the page started
  tornPolls,     \* the loops that issued a poll after the page was torn down
  billDone,      \* 'Billing processing completed!' toasts of the polls of the
                 \* interval set last
  editPc,        \* where handleSave, handleDelete or handleFilterChargebacks
                 \* stands: "idle", or the request it awaits
  mutLog,        \* the mutating action that finished last: which, whether it
                 \* fetched the validation stats, whether all its requests
                 \* resolved, and the stats it was answered
  pollLog,       \* the kind of poll whose answer came last, if that poll failed
  \* ---- the debtor table of the page
  debtors,       \* useState debtors: the query whose rows the table holds
  search,        \* useState search
  currentPage,   \* useState currentPage
  tableLoading,  \* useState tableLoading
  dbTimer,       \* the timer of the debtor-list effect, with the query its
                 \* closure holds
  dbReqs,        \* getUploadDebtors calls of that effect in flight
  filterQ,       \* the search text handleFilterChargebacks sends
  \* ---- history of the debtor table
  dbSeq,         \* getUploadDebtors calls the effect has issued
  dbShown,       \* which of them set the rows the table holds (0: none)
  dbIssue,       \* the last call issued: what armed its timer, and how long
                 \* the timer ran
  dbFailed,      \* how calls of the effect have failed so far; after an
                 \* "error" the user was shown nothing
  dbTouched,     \* the save or delete in progress has changed the rows
  vopOverlap     \* handleVerifyVop has armed an interval while the interval
                 \* of an earlier invocation was live

dtPageVars == <<upload, stats, vopStats, billingStats, loading, validating,
                syncing, verifyingVop>>
dtInitVars == <<initPc, allWait, initIssued, initOk, initErr>>
dtSyncVars == <<syncPc, syncCalls, lastSync, syncAnswer>>
dtVopVars == <<verifyReqs, vopLoops, vopPolls, vopPollAt, vopClosed, vopIssued,
               srvVopDone>>
dtBillVars == <<billIv, billPolls, billStale, billDone>>

dtEditVars == <<editPc, mutLog>>

dbVars == <<search, currentPage, tableLoading, dbTimer, dbReqs, dbSeq, dbShown,
           dbIssue, dbFailed>>

dtVars == <<dtLive, dtPageVars, dtInitVars, dtSyncVars, dtVopVars, dtBillVars,
            dtEditVars, toast, tornPolls, pollLog, debtors, filterQ, dbTouched,
            dbVars, vopOverlap>>

vars == <<apiVars, upVars, dtVars>>

\* Each part's actions leave the other parts alone.
ApiOnly == UNCHANGED <<upVars, dtVars>>
UploadsOnly == UNCHANGED <<apiVars, dtVars>>
DetailOnly == UNCHANGED <<apiVars, upVars>>

\* ------------------------------------------------------------------ bounds

\* Calls (in flight or settled) one behaviour of the ApiClient part makes.
MaxCalls == 3

\* UploadProgress instances one behaviour of the uploads part mounts.
MaxSessions == 2

\* Status fetches of UploadProgress in flight at once.
MaxGets == 2

\* fetchUploads() calls in flight at once.
MaxListFetches == 1

\* The largest pending count and total_eligible count of a VopStats answer.
MaxPending == 1

\* Sets of VOP timers (one interval and one timeout each) armed at once.
MaxVopLoops == 1

\* api.verifyVop calls in flight at once.
MaxVerifyReqs == 1

\* Polls of the VOP timers in flight at once (counted up to the bound).
MaxPolls == 1

\* Polls of the billing interval in flight at once (counted up to the bound).
MaxBillPolls == 2
MaxFetches == 2

(***************************************************************************)
(*                      ApiClient: src/lib/api.ts                          *)
(***************************************************************************)

NoToken == "null"
Tokens == {"tokA", "tokB"}

\* The statuses the backend answers with: success, 202-queued, 401, the 422
\* gate rejection and a server failure.
HttpStatus == {200, 202, 401, 422, 500}

\* Response.ok
ResponseOk(status) == status >= 200 /\ status =< 299

\* The endpoints that go through request(): login and logout wrap it with
\* token handling of their own, every other wrapper just returns the body.
RequestEndpoints == {"login", "logout", "data"}

NoCall == [via |-> "none", ep |-> "none", status |-> 0, outcome |-> "none", hadToken |-> FALSE]

\* getToken(): the memory copy when set, else localStorage (which it caches).
getToken == IF token # NoToken THEN token ELSE lsToken

isAuthenticated == getToken # NoToken

\* setToken(t)
setToken(t) == token' = t /\ lsToken' = t

clearToken == token' = NoToken /\ lsToken' = NoToken

\* A call settles: its fetch is over and its promise resolved or rejected.
Settle(r, status, outcome) ==
  /\ apiReqs' = apiReqs \ {r}
  /\ apiLast' = [via |-> r.via, ep |-> r.ep, status |-> status, outcome |-> outcome,
                 hadToken |-> lsToken # NoToken]
  /\ apiDone' = apiDone + 1

\* What a 401 does: clear the token, assign location.href, throw
\* Error('Unauthorized').
Handle401(r) ==
  /\ clearToken
  /\ href' = "/login"
  /\ navPending' = TRUE
  /\ Settle(r, 401, "Unauthorized")

\* request(): reads the token (getToken caches it) and starts the fetch.
ApiRequest(ep) ==
  /\ apiDone + Cardinality(apiReqs) < MaxCalls
  /\ LET r == [via |-> "request", ep |-> ep, auth |-> getToken, by |-> "direct"] IN
       /\ r \notin apiReqs
       /\ apiReqs' = apiReqs \cup {r}
  /\ token' = getToken
  /\ UNCHANGED <<lsToken, href, navPending, apiLast, apiDone, escaped>>
  /\ ApiOnly

\* The components with a logout button: Sidebar (sidebar.tsx lines 31-34) and
\* Header (header.tsx lines 42-51).
LogoutHandlers == {"sidebar", "header"}

\* Whether the handler awaits api.logout() inside a try with a catch: Header
\* does, Sidebar does not.
Catches(by) == by = "header"

\* handleLogout of Sidebar or Header up to its await: api.logout() calls
\* request('/logout').
handleLogout(by) ==
  /\ apiDone + Cardinality(apiReqs) < MaxCalls
  /\ LET r == [via |-> "request", ep |-> "logout", auth |-> getToken, by |-> by] IN
       /\ r \notin apiReqs
       /\ apiReqs' = apiReqs \cup {r}
  /\ token' = getToken
  /\ UNCHANGED <<lsToken, href, navPending, apiLast, apiDone, escaped>>
  /\ ApiOnly

\* The handler that awaited the call r goes on after r settled: a rejection
\* that its handleLogout does not catch escapes it.
Escapes(r, rejected) ==
  IF r.by \in LogoutHandlers /\ rejected /\ ~Catches(r.by)
  THEN escaped \cup {r.by} ELSE escaped

\* uploadFile(): the multipart path, a fetch of its own.
ApiUploadFile ==
  /\ apiDone + Cardinality(apiReqs) < MaxCalls
  /\ LET r == [via |-> "uploadFile", ep |-> "upload", auth |-> getToken,
                by |-> "direct"] IN
       /\ r \notin apiReqs
       /\ apiReqs' = apiReqs \cup {r}
  /\ token' = getToken
  /\ UNCHANGED <<lsToken, href, navPending, apiLast, apiDone, escaped>>
  /\ ApiOnly

\* The continuation of request() after the fetch, with login()'s setToken and
\* logout()'s finally { clearToken() } for those two endpoints, and then the
\* handleLogout that awaited it: window.location.href = '/login' after a
\* logout that resolved.
RequestResponse(r, status, newTok) ==
  /\ r \in apiReqs /\ r.via = "request"
  /\ IF status = 401 THEN Handle401(r)
     ELSE IF ~ResponseOk(status) THEN
       /\ Settle(r, status, "ApiError")
       /\ IF r.ep = "logout" THEN clearToken ELSE UNCHANGED <<token, lsToken>>
       /\ UNCHANGED <<href, navPending>>
     ELSE
       /\ Settle(r, status, "resolved")
       /\ CASE r.ep = "login" -> setToken(newTok)
            [] r.ep = "logout" -> clearToken
            [] OTHER -> UNCHANGED <<token, lsToken>>
       /\ IF r.by \in LogoutHandlers
          THEN href' = "/login" /\ navPending' = TRUE
          ELSE UNCHANGED <<href, navPending>>
  /\ escaped' = Escapes(r, ~ResponseOk(status))
  /\ ApiOnly

UploadFile401Mutant(r) ==
  /\ Settle(r, 401, "ApiError")
  /\ UNCHANGED <<token, lsToken, href, navPending>>

\* uploadFile()'s own 401 branch.
UploadFile401(r) == Handle401(r)

\* The continuation of uploadFile() after the fetch.
UploadFileResponse(r, status) ==
  /\ r \in apiReqs /\ r.via = "uploadFile"
  /\ IF status = 401 THEN UploadFile401(r)
     ELSE IF status = 202 THEN
       /\ Settle(r, status, "resolved")
       /\ UNCHANGED <<token, lsToken, href, navPending>>
     ELSE IF ~ResponseOk(status) THEN
       /\ Settle(r, status, "ApiError")
       /\ UNCHANGED <<token, lsToken, href, navPending>>
     ELSE
       /\ Settle(r, status, "resolved")
       /\ UNCHANGED <<token, lsToken, href, navPending>>
  /\ UNCHANGED escaped
  /\ ApiOnly

\* The hard navigation that location.href = '/login' asked for takes place: the
\* document is unloaded, its pending fetches and the module's memory with it.
PageUnload ==
  /\ navPending
  /\ navPending' = FALSE
  /\ apiReqs' = {}
  /\ token' = NoToken
  /\ UNCHANGED <<lsToken, href, apiLast, apiDone, escaped>>
  /\ ApiOnly

ApiInit ==
  /\ token = NoToken
  /\ lsToken \in Tokens \cup {NoToken}
  /\ href = "/admin"
  /\ navPending = FALSE
  /\ apiReqs = {}
  /\ apiLast = NoCall
  /\ apiDone = 0
  /\ escaped = {}

ApiStep ==
  \/ \E ep \in RequestEndpoints : ApiRequest(ep)
  \/ \E by \in LogoutHandlers : handleLogout(by)
  \/ ApiUploadFile
  \/ \E r \in apiReqs, s \in HttpStatus, t \in Tokens : RequestResponse(r, s, t)
  \/ \E r \in apiReqs, s \in HttpStatus : UploadFileResponse(r, s)
  \/ PageUnload

(***************************************************************************)
(*   UploadsPage and UploadProgress: src/app/admin/uploads/page.tsx,       *)
(*   src/unnamed/part_004 (components/upload-progress)                     *)
(***************************************************************************)
\* ---- files and their validation (page.tsx lines 92-107, 186, 232, 256)

\* The file names offered: an allowed extension in upper case, and a foreign one.
FileNames == { <<"A", ".", "C", "S", "V">>, <<"a", ".", "e", "x", "e">> }

\* The MIME types the browser reports for them: one on the list, one not.
MimeTypes == {"text/plain", "application/pdf"}

\* 50 * 1024 * 1024
MaxFileBytes == 50 * 1024 * 1024

\* The sizes offered: the largest accepted one and the first refused one.
FileSizes == {MaxFileBytes, MaxFileBytes + 1}

Files == [name : FileNames, type : MimeTypes, size : FileSizes]

\* file === null
NoFile == [name |-> <<>>, type |-> "", size |-> 0]

validExtensions ==
  { <<".", "c", "s", "v">>, <<".", "t", "x", "t">>,
    <<".", "x", "l", "s", "x">>, <<".", "x", "l", "s">> }

validMimeTypes ==
  { "text/csv", "text/plain",
    "application/vnd.openxmlformats-officedocument.spreadsheetml.sheet",
    "application/vnd.ms-excel" }

UpperChars == <<"A", "C", "E", "L", "S", "T", "V", "X">>
LowerChars == <<"a", "c", "e", "l", "s", "t", "v", "x">>

\* String.prototype.toLowerCase, on the letters that occur
toLowerCase(s) ==
  [i \in DOMAIN s |->
     IF \E k \in DOMAIN UpperChars : UpperChars[k] = s[i]
     THEN LowerChars[CHOOSE k \in DOMAIN UpperChars : UpperChars[k] = s[i]]
     ELSE s[i]]

\* String.prototype.endsWith
endsWith(s, suffix) ==
  /\ Len(s) >= Len(suffix)
  /\ SubSeq(s, Len(s) - Len(suffix) + 1, Len(s)) = suffix

isValidFileTypeMutant(f) == TRUE

\* isValidFileType: a valid extension OR a valid MIME type
isValidFileType(f) ==
  LET hasValidExtension == \E ext \in validExtensions : endsWith(toLowerCase(f.name), ext)
      hasValidMimeType == f.type \in validMimeTypes
  IN hasValidExtension \/ hasValidMimeType

\* file.size > 50 * 1024 * 1024
TooLarge(f) == f.size > MaxFileBytes

\* What the claim calls the file's extension: the name from its last dot on, in
\* lower case (empty when the name has no dot).
Extension(name) ==
  IF \E i \in DOMAIN name : name[i] = "."
  THEN LET d == CHOOSE i \in DOMAIN name :
                  name[i] = "." /\ \A j \in DOMAIN name : name[j] = "." => j =< i
       IN toLowerCase(SubSeq(name, d, Len(name)))
  ELSE <<>>

\* ---- UploadProgress (part_004)

\* setInterval(..., 2000), in seconds
IntervalSecs == 2

\* setTimeout(..., 3000) of handleProgressComplete, in seconds
DismissSecs == 3

UploadStatuses == {"pending", "processing", "completed", "failed"}

\* status === 'completed' || status === 'failed'
Terminal(status) == status \in {"completed", "failed"}

\* No live interval.
NoIv == [sid |-> 0, left |-> 0]

Sessions == 1..MaxSessions

\* Terminal callbacks are counted up to two: once, or more than once.
CbCap == 2

Mounted == activeUploadId # 0

\* The api.getUpload calls of fetchStatus in flight: own counts those made by a
\* tick of the live interval (their callback's clearInterval(interval) would
\* clear it), plain[s] every other one of instance s: the effect's own call, and
\* the ticks of an interval that has been cleared since.
NoGets == [plain |-> [s \in Sessions |-> 0], own |-> 0]

RECURSIVE SumTo(_, _)
SumTo(f, n) == IF n = 0 THEN 0 ELSE f[n] + SumTo(f, n - 1)

GetsInFlight(gs) == gs.own + SumTo(gs.plain, MaxSessions)

\* The live interval is cleared or replaced: no tick in flight owns it any more.
Disown(gs, ivx) ==
  IF ivx.sid = 0 THEN gs
  ELSE [plain |-> [gs.plain EXCEPT ![ivx.sid] = @ + gs.own], own |-> 0]

CleanupIvMutant(ivx) == ivx

\* The effect's cleanup: return () => clearInterval(interval)
CleanupIv(ivx) == NoIv

\* The effect body: fetchStatus() at once, then setInterval.
EffectGets(gs, ivx, sid) ==
  LET d == Disown(gs, ivx) IN [d EXCEPT !.plain[sid] = @ + 1]
EffectIv(sid) == [sid |-> sid, left |-> IntervalSecs]

\* A render of UploadsPage hands UploadProgress new onComplete / onError
\* functions, so fetchStatus (useCallback on them) is a new function and the
\* effect that depends on it is cleaned up and run again.
RenderGets(gs, ivx) == IF Mounted THEN EffectGets(gs, ivx, upSid) ELSE gs
RenderIv(ivx) == IF Mounted THEN EffectIv(upSid) ELSE ivx
RenderLate(ts) == lateGets \/ (Mounted /\ ts)
RenderErr(ts) == errGets \/ (Mounted /\ ts)
RenderRoom(gs) == Mounted => GetsInFlight(gs) < MaxGets

\* fetchUploads(): one more list fetch in flight (counted up to the bound).
AddList(n) == IF n < MaxListFetches THEN n + 1 ELSE n

upPageVars == <<file, isUploading, uploadStatus, activeUploadId,
                uploadReq, listFetches, dismissTimers, srvStatus>>
upProgVars == <<upSid, iv, gets>>
upHistVars == <<termSeen, cbCount, lateGets, throwSeen, errGets, orphanGets,
                silentReject, lastReject>>

\* The test that refuses file f, in the order the handlers make them.
RejectReason(f) ==
  IF ~isValidFileType(f) THEN "type" ELSE IF TooLarge(f) THEN "size" ELSE "none"

\* A render of the page with UploadProgress as it is (mounted or not).
Rerender ==
  /\ RenderRoom(gets)
  /\ gets' = RenderGets(gets, iv)
  /\ iv' = RenderIv(iv)
  /\ lateGets' = RenderLate(termSeen)
  /\ errGets' = RenderErr(throwSeen)
  /\ UNCHANGED <<upSid, termSeen, cbCount, throwSeen, orphanGets>>

\* setActiveUploadId(null): UploadProgress, if shown, unmounts and its effect is
\* cleaned up.
Unmount ==
  /\ activeUploadId' = 0
  /\ iv' = IF Mounted THEN CleanupIv(iv) ELSE iv
  /\ gets' = IF Mounted /\ CleanupIv(iv) = NoIv THEN Disown(gets, iv) ELSE gets
  /\ UNCHANGED <<upSid, termSeen, cbCount, lateGets, throwSeen, errGets,
                 orphanGets>>

\* handleFileChange (lines 170-193): the file input's change event.
handleFileChange(f) ==
  /\ ~isUploading
  /\ ~(f = NoFile /\ file = NoFile /\ uploadStatus = "null")
  /\ uploadStatus' = IF f # NoFile /\ (~isValidFileType(f) \/ TooLarge(f)) THEN "error" ELSE "null"
  /\ file' = IF f # NoFile /\ isValidFileType(f) /\ ~TooLarge(f) THEN f ELSE NoFile
  /\ silentReject' = (silentReject \/ (f # NoFile /\ file' # f /\ uploadStatus' # "error"))
  /\ lastReject' = IF f # NoFile /\ file' # f THEN RejectReason(f) ELSE lastReject
  /\ Rerender
  /\ UNCHANGED <<isUploading, activeUploadId, uploadReq,
                 listFetches, dismissTimers, srvStatus>>
  /\ UploadsOnly

\* handleDrop (lines 218-241): a refused file leaves the selected one in place.
handleDrop(f) ==
  /\ IF ~isValidFileType(f) THEN uploadStatus' = "error" /\ file' = file
     ELSE IF TooLarge(f) THEN uploadStatus' = "error" /\ file' = file
     ELSE uploadStatus' = "null" /\ file' = f
  /\ silentReject' = (silentReject \/ (file' # f /\ uploadStatus' # "error"))
  /\ lastReject' = IF file' # f THEN RejectReason(f) ELSE lastReject
  /\ Rerender
  /\ UNCHANGED <<isUploading, activeUploadId, uploadReq, listFetches,
                 dismissTimers, srvStatus>>
  /\ UploadsOnly

\* handleSubmit (lines 243-267), up to the await of api.uploadFile: the checks,
\* then the busy flag, the progress view taken down and the request sent.
handleSubmit ==
  /\ ~isUploading
  /\ IF file = NoFile \/ ~isValidFileType(file) \/ TooLarge(file)
     THEN /\ uploadStatus' = "error"
          /\ Rerender
          /\ UNCHANGED <<isUploading, activeUploadId, uploadReq>>
     ELSE /\ isUploading' = TRUE
          /\ uploadStatus' = "null"
          /\ uploadReq' = file
          /\ Unmount
  /\ lastReject' = IF file # NoFile /\ uploadReq' = uploadReq /\ uploadReq = NoFile
                   THEN RejectReason(file) ELSE lastReject
  /\ UNCHANGED <<file, listFetches, dismissTimers, srvStatus, silentReject>>
  /\ UploadsOnly

\* handleSubmit after the await (lines 268-293).  api.uploadFile resolves with
\* the upload processed ("sync": 200) or queued ("queued": 202), or rejects
\* ("error": a failure status, or the 'Unauthorized' of a 401, after which the
\* document is on its way to /login and nothing more of it is observed).
\* A new upload id mounts a new UploadProgress, whose effect runs.
UploadResponse(outcome) ==
  /\ uploadReq # NoFile
  /\ uploadReq' = NoFile
  /\ isUploading' = FALSE
  /\ IF outcome \in {"sync", "queued"}
     THEN /\ upSid < MaxSessions /\ GetsInFlight(gets) < MaxGets
          /\ upSid' = upSid + 1
          /\ activeUploadId' = upSid + 1
          /\ srvStatus' = [srvStatus EXCEPT ![upSid + 1] =
                             IF outcome = "sync" THEN "completed" ELSE "pending"]
          /\ file' = NoFile
          /\ gets' = EffectGets(gets, iv, upSid + 1)
          /\ iv' = EffectIv(upSid + 1)
          /\ termSeen' = FALSE
          /\ throwSeen' = FALSE
          /\ cbCount' = 0
          /\ UNCHANGED <<uploadStatus, lateGets, errGets, orphanGets>>
     ELSE /\ uploadStatus' = "error"
          /\ Rerender
          /\ UNCHANGED <<file, activeUploadId, srvStatus>>
  /\ UNCHANGED <<listFetches, dismissTimers, silentReject, lastReject>>
  /\ UploadsOnly

\* The interval callback up to its await: fetchStatus() is called.
IntervalTick ==
  /\ iv.sid # 0 /\ iv.left = 0
  /\ GetsInFlight(gets) < MaxGets
  /\ gets' = [gets EXCEPT !.own = @ + 1]
  /\ iv' = [iv EXCEPT !.left = IntervalSecs]
  /\ lateGets' = (lateGets \/ (iv.sid = upSid /\ termSeen))
  /\ errGets' = (errGets \/ (iv.sid = upSid /\ throwSeen))
  /\ orphanGets' = (orphanGets \/ activeUploadId # iv.sid)
  /\ UNCHANGED <<upSid, termSeen, cbCount, throwSeen, silentReject, lastReject>>
  /\ UNCHANGED upPageVars
  /\ UploadsOnly

\* The timeout of handleProgressComplete (lines 309-311): its callback
\* clears activeUploadId, whichever upload that is by then.
DismissTimer(sid) == [left |-> DismissSecs, sid |-> sid]

\* fetchStatus after its await (lines 56-70), the parent's handleProgressComplete
\* (lines 296-312) or handleProgressError (lines 314-317) it calls, the interval
\* callback's clearInterval (lines 78-80), and the render the parent's new state
\* causes.  sid is the instance that made the call, own says the call is a tick
\* of the live interval, res is the fetched status, or "throw" when
\* api.getUpload rejects.
StatusResponse(sid, own, res) ==
  /\ IF own THEN gets.own > 0 /\ iv.sid = sid ELSE gets.plain[sid] > 0
  /\ LET called == Terminal(res) \/ res = "throw"
         rest == IF own THEN [gets EXCEPT !.own = @ - 1]
                 ELSE [gets EXCEPT !.plain[sid] = @ - 1]
         ts == termSeen \/ (sid = upSid /\ Terminal(res))
         th == throwSeen \/ (sid = upSid /\ res = "throw")
         iv1 == IF own /\ called THEN NoIv ELSE iv
         rest1 == IF own /\ called THEN Disown(rest, iv) ELSE rest
     IN
       /\ termSeen' = ts
       /\ throwSeen' = th
       /\ cbCount' = IF Terminal(res) /\ sid = upSid /\ cbCount < CbCap THEN cbCount + 1 ELSE cbCount
       /\ IF called
          THEN /\ uploadStatus' = IF res = "completed" THEN "done" ELSE "error"
               /\ listFetches' = AddList(listFetches)
               /\ dismissTimers' = IF res = "completed"
                                   THEN dismissTimers \cup {DismissTimer(sid)}
                                   ELSE dismissTimers
               /\ gets' = RenderGets(rest1, iv1)
               /\ iv' = RenderIv(iv1)
               /\ lateGets' = RenderLate(ts)
               /\ errGets' = RenderErr(th)
          ELSE /\ gets' = rest
               /\ iv' = iv
               /\ UNCHANGED <<uploadStatus, listFetches, dismissTimers, lateGets,
                              errGets>>
  /\ UNCHANGED <<file, isUploading, activeUploadId, uploadReq,
                 srvStatus, upSid, orphanGets, silentReject, lastReject>>
  /\ UploadsOnly

\* The 3 s timeout of handleProgressComplete fires: setActiveUploadId(null).
DismissTimerFire ==
  /\ \E t \in dismissTimers : t.left = 0 /\ dismissTimers' = dismissTimers \ {t}
  /\ Unmount
  /\ UNCHANGED <<file, isUploading, uploadStatus, uploadReq,
                 listFetches, srvStatus, silentReject, lastReject>>
  /\ UploadsOnly

\* dismissProgress (lines 319-323): the X button over the progress card.
dismissProgress ==
  /\ Mounted
  /\ listFetches' = AddList(listFetches)
  /\ Unmount
  /\ UNCHANGED <<file, isUploading, uploadStatus, uploadReq,
                 dismissTimers, srvStatus, silentReject, lastReject>>
  /\ UploadsOnly

\* fetchUploads after its await (lines 136-147): the list, or the logged error,
\* then setLoading(false); the page renders again.
ListResponse ==
  /\ listFetches > 0
  /\ listFetches' = listFetches - 1
  /\ Rerender
  /\ UNCHANGED <<file, isUploading, uploadStatus, activeUploadId,
                 uploadReq, dismissTimers, srvStatus, silentReject, lastReject>>
  /\ UploadsOnly

\* One second passes; no timer that is due is left waiting.
UploadsTick ==
  /\ iv.sid # 0 \/ dismissTimers # {}
  /\ iv.sid # 0 => iv.left > 0
  /\ \A t \in dismissTimers : t.left > 0
  /\ iv' = IF iv.sid # 0 THEN [iv EXCEPT !.left = @ - 1] ELSE iv
  /\ dismissTimers' = {[t EXCEPT !.left = @ - 1] : t \in dismissTimers}
  /\ UNCHANGED <<file, isUploading, uploadStatus, activeUploadId,
                 uploadReq, listFetches, srvStatus, upSid, gets>>
  /\ UNCHANGED upHistVars
  /\ UploadsOnly

\* The backend's job moves an upload along pending -> processing -> completed | failed.
BackendAdvance(s, to) ==
  /\ s \in 1..upSid
  /\ \/ srvStatus[s] = "pending" /\ to = "processing"
     \/ srvStatus[s] = "processing" /\ to \in {"completed", "failed"}
  /\ srvStatus' = [srvStatus EXCEPT ![s] = to]
  /\ UNCHANGED <<file, isUploading, uploadStatus, activeUploadId,
                 uploadReq, listFetches, dismissTimers>>
  /\ UNCHANGED upProgVars
  /\ UNCHANGED upHistVars
  /\ UploadsOnly

\* The page after its first render: the mount effect's fetchUploads() is in flight.
UploadsInit ==
  /\ file = NoFile
  /\ isUploading = FALSE
  /\ uploadStatus = "null"
  /\ activeUploadId = 0
  /\ uploadReq = NoFile
  /\ listFetches = 1
  /\ dismissTimers = {}
  /\ srvStatus = [s \in Sessions |-> "none"]
  /\ upSid = 0
  /\ iv = NoIv
  /\ gets = NoGets
  /\ termSeen = FALSE
  /\ cbCount = 0
  /\ lateGets = FALSE
  /\ throwSeen = FALSE
  /\ errGets = FALSE
  /\ orphanGets = FALSE
  /\ silentReject = FALSE
  /\ lastReject = "none"

UploadOutcomes == {"sync", "queued", "error"}

\* The file offered while the poller is watched: one that passes the checks.
PollFiles ==
  { [name |-> <<"A", ".", "C", "S", "V">>, type |-> "text/plain", size |-> MaxFileBytes] }

\* The file handlers alone, with every file of Files offered.
FilesStep ==
  \/ \E f \in Files \cup {NoFile} : handleFileChange(f)
  \/ \E f \in Files : handleDrop(f)
  \/ handleSubmit
  \/ \E o \in UploadOutcomes : UploadResponse(o)
  \/ \E sid \in Sessions, own \in BOOLEAN, res \in UploadStatuses \cup {"throw"} :
       (res = "throw" \/ res = srvStatus[sid]) /\ StatusResponse(sid, own, res)
  \/ ListResponse

UploadsStep ==
  \/ \E f \in PollFiles \cup {NoFile} : handleFileChange(f)
  \/ \E f \in PollFiles : handleDrop(f)
  \/ handleSubmit
  \/ \E o \in UploadOutcomes : UploadResponse(o)
  \/ IntervalTick
  \/ \E sid \in Sessions, own \in BOOLEAN, res \in UploadStatuses \cup {"throw"} :
       (res = "throw" \/ res = srvStatus[sid]) /\ StatusResponse(sid, own, res)
  \/ DismissTimerFire
  \/ dismissProgress
  \/ ListResponse
  \/ UploadsTick
  \/ \E s \in Sessions, to \in UploadStatuses : BackendAdvance(s, to)

(***************************************************************************)
(*     UploadDetailPage: src/app/admin/uploads/[id]/page.tsx               *)
(***************************************************************************)

\* vopStats === null
NoStats == [total_eligible |-> -1, pending |-> -1]

\* The VopStats answers of the backend.  The two counts are taken as the type
\* has them, two numbers.
VopValues == [total_eligible : 0..MaxPending, pending : 0..MaxPending]

\* stats === null
NoReady == -1

\* stats.ready_for_sync as answered
ReadyCounts == {0, 1}

BillingValues == {"idle", "processing"}

\* const vopPending = vopStats ? vopStats.pending : 0
vopPending == IF vopStats # NoStats THEN vopStats.pending ELSE 0

\* const vopTotalEligible = vopStats ? vopStats.total_eligible : 0
vopTotalEligible == IF vopStats # NoStats THEN vopStats.total_eligible ELSE 0

\* const canSync = vopTotalEligible === 0 || vopPending === 0
canSync == vopTotalEligible = 0 \/ vopPending = 0

VopGateMutant(pending) == FALSE

\* handleSync's own gate: if (vopPending > 0) { toast.error(...); return }
VopGate(pending) == pending > 0

\* The page is past its loading spinner and its 'Upload not found' notice.
Rendered == dtLive /\ ~loading /\ upload

\* The Sync button's disabled attribute, negated.
SyncEnabled ==
  ~(syncing \/ billingStats = "processing"
      \/ (IF stats = NoReady THEN 0 ELSE stats) = 0 \/ ~canSync)

\* A state setter called by a continuation: nothing happens once the page is
\* unmounted.
SetState(new, old) == IF dtLive THEN new ELSE old

\* The billing effect (lines 216-228) for a new billingStats: its cleanup clears
\* the interval when is_processing turns false, its body sets one when it
\* turns true.
BillEffect(b) == dtLive /\ b = "processing"

\* The history of the billing interval when the effect has run and leaves the
\* interval at ivNew with pollsNew of its polls in flight: an interval newly set
\* starts with no toast of its own, and the polls in flight are not its polls.
BillEpisode(ivNew, pollsNew, staleNew, doneNew) ==
  IF ~billIv /\ ivNew
  THEN billStale' = pollsNew /\ billDone' = 0
  ELSE billStale' = staleNew /\ billDone' = doneNew

\* The toasts that carry the 'Verify VOP' action.
GateToasts == {"gateLocal", "gateBackend"}

\* The debtor table.  The rows the table holds are named by the query that
\* was answered with them: the page and the search text of the request.
SearchTexts == {"", "a"}
MaxPage == 2
Pages == 1..MaxPage
Query(page, text) == [page |-> page, search |-> text]
NoRows == Query(0, "")
NoTimer == [live |-> FALSE, wait |-> 0, ran |-> 0, q |-> NoRows, cause |-> "none"]
NoIssue == [cause |-> "none", ran |-> 0]

\* The delay of the effect's setTimeout: `search ? 300 : 0`.
DebounceMs == 300
Delay(text) == IF text # "" THEN DebounceMs ELSE 0

\* The debtor-list effect (lines 230-263) run for a render with the given
\* state: nothing while loading and nothing for page 1 with an empty search,
\* else a timer whose closure holds the query.
ListEffect(live, ld, page, text, cause) ==
  IF ~live \/ ld \/ (page = 1 /\ text = "")
  THEN NoTimer
  ELSE [live |-> TRUE, wait |-> Delay(text), ran |-> 0, q |-> Query(page, text),
        cause |-> cause]

InitReqs == {"upload", "validate", "debtors", "stats", "vop", "billing"}

InitNextMutant(stage, ok) ==
  CASE stage = "upload" -> "validate"
    [] stage = "validate" -> "all"
    [] stage = "all" -> "vop"
    [] stage = "vop" -> "billing"
    [] OTHER -> "done"

\* initPage's next await after the one at stage settled: a rejection lands in
\* the catch, except fetchVopStats and fetchBillingStats, which catch their own.
InitNext(stage, ok) ==
  CASE stage = "upload" -> IF ok THEN "validate" ELSE "done"
    [] stage = "validate" -> IF ok THEN "all" ELSE "done"
    [] stage = "all" -> IF ok THEN "vop" ELSE "done"
    [] stage = "vop" -> "billing"
    [] OTHER -> "done"

\* The requests initPage issues on entering a stage.
StageReqs(stage) ==
  CASE stage = "all" -> {"debtors", "stats"}
    [] stage = "done" -> {}
    [] OTHER -> {stage}

InitCatchMutant(next, ok, shown) == shown

\* initPage's catch (lines 203-205): toast.error('Failed to load upload') when
\* an await of the try block rejected.
InitCatch(next, ok, shown) ==
  IF next = "done" /\ ~ok THEN "loadFailed" ELSE shown

\* initPage moves on from the await of stage: the history of what it saw and
\* what it issues next, and, when it is over, its catch (a rejection: the toast)
\* and its finally.
\* The stages of initPage whose rejection never reaches initPage's catch:
\* fetchVopStats and fetchBillingStats catch their own (lines 161-163,
\* 171-174).
InitSwallowed == {"vop", "billing"}

InitMove(stage, seen, ok) ==
  LET next == InitNext(stage, ok) IN
    /\ initPc' = next
    /\ initOk' = IF ok THEN initOk \cup seen ELSE initOk
    /\ initErr' = IF ok THEN initErr ELSE initErr \cup seen
    /\ initIssued' = initIssued \cup StageReqs(next)
    /\ allWait' = IF next = "all" THEN StageReqs(next) ELSE allWait \ seen
    /\ toast' = InitCatch(next, ok \/ stage \in InitSwallowed, toast)
    /\ loading' = IF next = "done" THEN SetState(FALSE, loading) ELSE loading
    /\ validating' = CASE next = "done" -> SetState(FALSE, validating)
                        [] next = "validate" -> SetState(TRUE, validating)
                        [] next = "all" -> SetState(FALSE, validating)
                        [] OTHER -> validating

\* initPage after await api.getUpload (lines 180-184).
InitUploadResponse(ok) ==
  /\ initPc = "upload"
  /\ InitMove("upload", {"upload"}, ok)
  /\ upload' = IF ok THEN SetState(TRUE, upload) ELSE upload
  /\ UNCHANGED <<dtLive, stats, vopStats, billingStats, syncing, verifyingVop,
                 tornPolls>>
  /\ UNCHANGED <<dtSyncVars, dtVopVars, dtBillVars>>
  /\ UNCHANGED dtEditVars
  /\ UNCHANGED pollLog
  /\ UNCHANGED dbVars
  /\ UNCHANGED debtors
  /\ UNCHANGED filterQ
  /\ UNCHANGED dbTouched
  /\ UNCHANGED vopOverlap
  /\ DetailOnly

\* initPage after await api.validateUpload (lines 184-191).
InitValidateResponse(ok) ==
  /\ initPc = "validate"
  /\ InitMove("validate", {"validate"}, ok)
  /\ UNCHANGED <<dtLive, upload, stats, vopStats, billingStats, syncing,
                 verifyingVop, tornPolls>>
  /\ UNCHANGED <<dtSyncVars, dtVopVars, dtBillVars>>
  /\ UNCHANGED dtEditVars
  /\ UNCHANGED pollLog
  /\ UNCHANGED dbVars
  /\ UNCHANGED debtors
  /\ UNCHANGED filterQ
  /\ UNCHANGED dbTouched
  /\ UNCHANGED vopOverlap
  /\ DetailOnly

\* One request of the Promise.all settles (lines 188-200).  The first rejection
\* rejects the await; both resolved resolve it, and the debtors and the stats
\* are stored; a request that settles after the await was rejected is dropped.
InitAllResponse(r, ok, ready) ==
  /\ r \in allWait
  /\ IF initPc = "all" /\ (~ok \/ allWait = {r})
     THEN /\ InitMove("all", {r}, ok)
          /\ stats' = IF ok THEN SetState(ready, stats) ELSE stats
          /\ debtors' = IF ok THEN SetState(Query(1, ""), debtors) ELSE debtors
     ELSE /\ allWait' = allWait \ {r}
          /\ initOk' = IF initPc = "all" THEN initOk \cup {r} ELSE initOk
          /\ UNCHANGED <<initPc, initIssued, initErr, toast, loading,
                         validating, stats, debtors>>
  /\ UNCHANGED <<dtLive, upload, vopStats, billingStats, syncing, verifyingVop,
                 tornPolls>>
  /\ UNCHANGED <<dtSyncVars, dtVopVars, dtBillVars>>
  /\ UNCHANGED dtEditVars
  /\ UNCHANGED pollLog
  /\ UNCHANGED dbVars
  /\ UNCHANGED filterQ
  /\ UNCHANGED dbTouched
  /\ UNCHANGED vopOverlap
  /\ DetailOnly

\* initPage after await fetchVopStats() (lines 157-164, 201).
InitVopResponse(ok, data) ==
  /\ initPc = "vop"
  /\ InitMove("vop", {"vop"}, ok)
  /\ vopStats' = IF ok THEN SetState(data, vopStats) ELSE vopStats
  /\ UNCHANGED <<dtLive, upload, stats, billingStats, syncing, verifyingVop,
                 tornPolls>>
  /\ UNCHANGED <<dtSyncVars, dtVopVars, dtBillVars>>
  /\ UNCHANGED dtEditVars
  /\ UNCHANGED pollLog
  /\ UNCHANGED dbVars
  /\ UNCHANGED debtors
  /\ UNCHANGED filterQ
  /\ UNCHANGED dbTouched
  /\ UNCHANGED vopOverlap
  /\ DetailOnly

\* initPage after await fetchBillingStats() (lines 166-175, 202, 206-209), and
\* the billing effect for the stats it stored.
InitBillingResponse(ok, b) ==
  /\ initPc = "billing"
  /\ InitMove("billing", {"billing"}, ok)
  /\ billingStats' = IF ok THEN SetState(b, billingStats) ELSE billingStats
  /\ billIv' = BillEffect(billingStats')
  /\ BillEpisode(billIv', billPolls, billStale, billDone)
  /\ UNCHANGED <<dtLive, upload, stats, vopStats, syncing, verifyingVop,
                 tornPolls, billPolls>>
  /\ UNCHANGED <<dtSyncVars, dtVopVars>>
  /\ UNCHANGED dtEditVars
  /\ UNCHANGED pollLog
  /\ UNCHANGED dbVars
  /\ UNCHANGED debtors
  /\ UNCHANGED filterQ
  /\ UNCHANGED dbTouched
  /\ UNCHANGED vopOverlap
  /\ DetailOnly

NoSync == [pending |-> -1, eligible |-> -1, prompted |-> FALSE,
           accepted |-> FALSE, sent |-> FALSE]

ConfirmedMutant(answer) == TRUE

\* if (!confirm(...)) return (lines 299-301): the handler goes on when the
\* user's answer to the prompt is yes.
Confirmed(answer) == answer

\* handleSync up to its first await (lines 287-302): the gate, the confirm()
\* prompt (accept is the user's answer), then the request.  The handler is taken
\* as callable whenever the page is rendered and no invocation is under way;
\* whether the button lets a click through is SyncEnabled.
handleSync(accept) ==
  /\ Rendered /\ syncPc = "idle"
  /\ syncCalls' = 1 - syncCalls
  /\ IF VopGate(vopPending)
     THEN /\ toast' = "gateLocal"
          /\ lastSync' = [pending |-> vopPending, eligible |-> vopTotalEligible,
                          prompted |-> FALSE, accepted |-> FALSE, sent |-> FALSE]
          /\ UNCHANGED <<syncing, syncPc>>
     ELSE /\ lastSync' = [pending |-> vopPending, eligible |-> vopTotalEligible,
                          prompted |-> TRUE, accepted |-> accept,
                          sent |-> Confirmed(accept)]
          /\ syncing' = IF Confirmed(accept) THEN TRUE ELSE syncing
          /\ syncPc' = IF Confirmed(accept) THEN "awaitSync" ELSE syncPc
          /\ UNCHANGED toast
  /\ UNCHANGED <<dtLive, upload, stats, vopStats, billingStats, loading,
                 validating, verifyingVop, tornPolls, syncAnswer>>
  /\ UNCHANGED <<dtInitVars, dtVopVars, dtBillVars>>
  /\ UNCHANGED dtEditVars
  /\ UNCHANGED pollLog
  /\ UNCHANGED dbVars
  /\ UNCHANGED debtors
  /\ UNCHANGED filterQ
  /\ UNCHANGED dbTouched
  /\ UNCHANGED vopOverlap
  /\ DetailOnly

\* No mutating action has finished yet.
NoMut == [kind |-> "none", fetched |-> FALSE, ok |-> FALSE, result |-> NoReady]

\* handleSync's try block for an answer that is ok (lines 305-314): its only
\* fetch after the answer is fetchBillingStats, on 'queued'; it makes no
\* validation-stats fetch.
SyncLog == [kind |-> "sync", fetched |-> FALSE, ok |-> TRUE, result |-> NoReady]

\* The backend's answers to the sync request: three that are ok, the 422 whose
\* payload says vop_required, and any other failure.
SyncOutcomes == {"duplicate", "queued", "other", "vop_required", "error"}

SyncOk == {"duplicate", "queued", "other"}

\* What ApiClient.request throws for an answer that is not ok (api.ts lines
\* 340-343): new Error(error.message || `API Error: ${status}`), an Error that
\* has the message and no response property.
ThrownError(outcome) == [message |-> TRUE, response |-> "undefined"]

\* The catch's test (line 317): error.response?.data?.data?.vop_required
VopRequired(error) == error.response = "vop_required"

\* handleSync after await api.syncToGateway (lines 303-331).
\* handleSync's finally (lines 329-331): setSyncing(false) once the handler
\* has nothing left to await, however the request was answered.
SyncFinallyMutant(outcome, pc, flag) ==
  IF pc = "idle" /\ outcome \in SyncOk THEN SetState(FALSE, flag) ELSE flag
SyncFinally(outcome, pc, flag) ==
  IF pc = "idle" THEN SetState(FALSE, flag) ELSE flag

SyncResponse(outcome) ==
  /\ syncPc = "awaitSync"
  /\ syncAnswer' = outcome
  /\ toast' = CASE outcome = "duplicate" -> "warning"
                [] outcome = "queued" -> "success"
                [] outcome = "other" -> "info"
                [] VopRequired(ThrownError(outcome)) -> "gateBackend"
                [] OTHER -> "error"
  /\ syncPc' = CASE outcome = "queued" -> "awaitBilling"
                 [] outcome \in SyncOk -> "idle"
                 [] VopRequired(ThrownError(outcome)) -> "awaitVop"
                 [] OTHER -> "idle"
  /\ syncing' = SyncFinally(outcome, syncPc', syncing)
  /\ UNCHANGED <<dtLive, upload, stats, vopStats, billingStats, loading,
                 validating, verifyingVop, tornPolls, syncCalls, lastSync>>
  /\ mutLog' = IF outcome = "other" THEN SyncLog ELSE mutLog
  /\ UNCHANGED <<dtInitVars, dtVopVars, dtBillVars, editPc>>
  /\ UNCHANGED pollLog
  /\ UNCHANGED dbVars
  /\ UNCHANGED debtors
  /\ UNCHANGED filterQ
  /\ UNCHANGED dbTouched
  /\ UNCHANGED vopOverlap
  /\ DetailOnly

\* handleSync after await fetchBillingStats() (line 310), its finally, and the
\* billing effect for the stats stored.
SyncBillingResponse(ok, b) ==
  /\ syncPc = "awaitBilling"
  /\ syncPc' = "idle"
  /\ billingStats' = IF ok THEN SetState(b, billingStats) ELSE billingStats
  /\ billIv' = BillEffect(billingStats')
  /\ BillEpisode(billIv', billPolls, billStale, billDone)
  /\ syncing' = SetState(FALSE, syncing)
  /\ UNCHANGED <<dtLive, upload, stats, vopStats, loading, validating,
                 verifyingVop, tornPolls, toast, syncCalls, lastSync, syncAnswer,
                 billPolls>>
  /\ mutLog' = SyncLog
  /\ UNCHANGED <<dtInitVars, dtVopVars, editPc>>
  /\ UNCHANGED pollLog
  /\ UNCHANGED dbVars
  /\ UNCHANGED debtors
  /\ UNCHANGED filterQ
  /\ UNCHANGED dbTouched
  /\ UNCHANGED vopOverlap
  /\ DetailOnly

\* handleSync after await fetchVopStats() in its catch (line 325), and its
\* finally.  No Error that ApiClient.request throws takes handleSync there.
SyncVopResponse(ok, data) ==
  /\ syncPc = "awaitVop"
  /\ syncPc' = "idle"
  /\ vopStats' = IF ok THEN SetState(data, vopStats) ELSE vopStats
  /\ syncing' = SetState(FALSE, syncing)
  /\ UNCHANGED <<dtLive, upload, stats, billingStats, loading, validating,
                 verifyingVop, tornPolls, toast, syncCalls, lastSync, syncAnswer>>
  /\ UNCHANGED <<dtInitVars, dtVopVars, dtBillVars>>
  /\ UNCHANGED dtEditVars
  /\ UNCHANGED pollLog
  /\ UNCHANGED dbVars
  /\ UNCHANGED debtors
  /\ UNCHANGED filterQ
  /\ UNCHANGED dbTouched
  /\ UNCHANGED vopOverlap
  /\ DetailOnly

\* handleVerifyVop up to its await (lines 265-268), called by the 'Verify VOP'
\* button or the banner's button (shown while vopPending > 0, disabled while
\* verifyingVop) or by the action of a gate toast, which the click dismisses.
handleVerifyVop(via) ==
  /\ verifyReqs < MaxVerifyReqs
  /\ IF via = "toast" THEN dtLive /\ toast \in GateToasts
     ELSE Rendered /\ vopPending > 0 /\ ~verifyingVop
  /\ verifyingVop' = TRUE
  /\ verifyReqs' = verifyReqs + 1
  /\ toast' = IF via = "toast" THEN "none" ELSE toast
  /\ UNCHANGED <<dtLive, upload, stats, vopStats, billingStats, loading,
                 validating, syncing, tornPolls>>
  /\ UNCHANGED <<vopLoops, vopPolls, vopPollAt, vopClosed, vopIssued, srvVopDone>>
  /\ UNCHANGED <<dtInitVars, dtSyncVars, dtBillVars>>
  /\ UNCHANGED dtEditVars
  /\ UNCHANGED pollLog
  /\ UNCHANGED dbVars
  /\ UNCHANGED debtors
  /\ UNCHANGED filterQ
  /\ UNCHANGED dbTouched
  /\ UNCHANGED vopOverlap
  /\ DetailOnly

\* setInterval(..., 5000) and setTimeout(..., 120000) of handleVerifyVop, in
\* seconds
VopPollSecs == 5
VopBudgetSecs == 120

\* One handleVerifyVop's timers: e is the time since they were armed, iv and to
\* say the interval and the timeout are live, ivDue that the interval's
\* callback is due.
NoLoop == [e |-> 0, iv |-> FALSE, ivDue |-> FALSE, to |-> FALSE]

VopLoopIds == 1..MaxVopLoops

LoopActive(lp) == lp.iv \/ lp.to

Later(a, b) == IF a > b THEN a ELSE b

AddPollMutant(n) == n

\* One more poll in flight (counted up to the bound).
AddPoll(n) == IF n < MaxPolls THEN n + 1 ELSE n

ClearPollIntervalMutant(ivActive) == ivActive

\* clearInterval(pollInterval) in the timeout's callback
ClearPollInterval(ivActive) == FALSE

\* handleVerifyVop keeps no handle of the timers of an earlier invocation:
\* the interval it arms (line 271) is one more beside those still live.
Overlaps(before) == before \/ \E l \in VopLoopIds : vopLoops[l].iv

\* handleVerifyVop after await api.verifyVop (lines 268-284): the timers are
\* armed, whether or not the page is still mounted.  Of the timers armed
\* while MaxVopLoops loops are live only the arming is recorded.
VerifyResponse(ok) ==
  /\ verifyReqs > 0
  /\ verifyReqs' = verifyReqs - 1
  /\ IF ok
     THEN /\ IF \E l \in VopLoopIds : ~LoopActive(vopLoops[l])
             THEN LET l == CHOOSE k \in VopLoopIds : ~LoopActive(vopLoops[k]) IN
                    /\ vopLoops' = [vopLoops EXCEPT
                                     ![l] = [e |-> 0, iv |-> TRUE, ivDue |-> FALSE,
                                             to |-> TRUE]]
                    /\ vopIssued' = [vopIssued EXCEPT ![l] = 0]
             ELSE UNCHANGED <<vopLoops, vopIssued>>
          /\ vopOverlap' = Overlaps(vopOverlap)
          /\ toast' = "verifyStarted"
     ELSE /\ toast' = "verifyFailed"
          /\ UNCHANGED <<vopLoops, vopIssued, vopOverlap>>
  /\ verifyingVop' = SetState(FALSE, verifyingVop)
  /\ UNCHANGED <<dtLive, upload, stats, vopStats, billingStats, loading,
                 validating, syncing, tornPolls, vopPolls, vopPollAt, vopClosed,
                 srvVopDone>>
  /\ UNCHANGED <<dtInitVars, dtSyncVars, dtBillVars>>
  /\ UNCHANGED dtEditVars
  /\ UNCHANGED pollLog
  /\ UNCHANGED dbVars
  /\ UNCHANGED debtors
  /\ UNCHANGED filterQ
  /\ UNCHANGED dbTouched
  /\ DetailOnly

\* VopPollSecs pass for the timers of loop l; no callback that is due is left
\* waiting.
VopAdvance(l) ==
  LET lp == vopLoops[l] IN
    /\ LoopActive(lp) /\ ~lp.ivDue
    /\ ~(lp.to /\ lp.e = VopBudgetSecs)
    /\ lp.e =< VopBudgetSecs
    /\ vopLoops' = [vopLoops EXCEPT ![l] = [lp EXCEPT !.e = @ + VopPollSecs, !.ivDue = lp.iv]]
    /\ UNCHANGED <<dtLive, dtPageVars, dtInitVars, dtSyncVars, dtBillVars, toast,
                   tornPolls, verifyReqs, vopPolls, vopPollAt, vopClosed,
                   vopIssued, srvVopDone>>
    /\ UNCHANGED dtEditVars
    /\ UNCHANGED pollLog
    /\ UNCHANGED dbVars
    /\ UNCHANGED debtors
    /\ UNCHANGED filterQ
    /\ UNCHANGED dbTouched
    /\ UNCHANGED vopOverlap
    /\ DetailOnly

\* The interval's callback (lines 271-273) calls fetchVopStats.
VopIntervalTick(l) ==
  LET lp == vopLoops[l] IN
    /\ lp.iv /\ lp.ivDue
    /\ vopLoops' = [vopLoops EXCEPT ![l] = [lp EXCEPT !.ivDue = FALSE]]
    /\ vopPolls' = AddPoll(vopPolls)
    /\ vopIssued' = [vopIssued EXCEPT ![l] = @ + 1]
    /\ vopPollAt' = Later(vopPollAt, lp.e)
    /\ tornPolls' = IF dtLive THEN tornPolls ELSE tornPolls \cup {"vop"}
    /\ UNCHANGED <<dtLive, dtPageVars, dtInitVars, dtSyncVars, dtBillVars, toast,
                   verifyReqs, vopClosed, srvVopDone>>
    /\ UNCHANGED dtEditVars
    /\ UNCHANGED pollLog
    /\ UNCHANGED dbVars
    /\ UNCHANGED debtors
    /\ UNCHANGED filterQ
    /\ UNCHANGED dbTouched
    /\ UNCHANGED vopOverlap
    /\ DetailOnly

\* The timeout's callback (lines 275-278): clearInterval, then fetchVopStats.
VopTimeoutFire(l) ==
  LET lp == vopLoops[l]
      ivLeft == ClearPollInterval(lp.iv)
  IN
    /\ lp.to /\ lp.e = VopBudgetSecs
    /\ vopLoops' = [vopLoops EXCEPT
                      ![l] = IF ivLeft
                             THEN [lp EXCEPT !.to = FALSE]
                             ELSE NoLoop]
    /\ vopPolls' = AddPoll(vopPolls)
    /\ vopIssued' = [vopIssued EXCEPT ![l] = @ + 1]
    /\ vopPollAt' = Later(vopPollAt, lp.e)
    /\ vopClosed' = TRUE
    /\ tornPolls' = IF dtLive THEN tornPolls ELSE tornPolls \cup {"vop"}
    /\ UNCHANGED <<dtLive, dtPageVars, dtInitVars, dtSyncVars, dtBillVars, toast,
                   verifyReqs, srvVopDone>>
    /\ UNCHANGED dtEditVars
    /\ UNCHANGED pollLog
    /\ UNCHANGED dbVars
    /\ UNCHANGED debtors
    /\ UNCHANGED filterQ
    /\ UNCHANGED dbTouched
    /\ UNCHANGED vopOverlap
    /\ DetailOnly

\* fetchVopStats of a timer after its await (lines 157-164).
VopPollResponse(ok, data) ==
  /\ vopPolls > 0
  /\ vopPolls' = vopPolls - 1
  /\ vopStats' = IF ok THEN SetState(data, vopStats) ELSE vopStats
  /\ pollLog' = IF ok THEN "none" ELSE "vop"
  /\ UNCHANGED <<dtLive, upload, stats, billingStats, loading, validating,
                 syncing, verifyingVop, toast, tornPolls>>
  /\ UNCHANGED <<verifyReqs, vopLoops, vopPollAt, vopClosed, vopIssued, srvVopDone>>
  /\ UNCHANGED <<dtInitVars, dtSyncVars, dtBillVars>>
  /\ UNCHANGED dtEditVars
  /\ UNCHANGED dbVars
  /\ UNCHANGED debtors
  /\ UNCHANGED filterQ
  /\ UNCHANGED dbTouched
  /\ UNCHANGED vopOverlap
  /\ DetailOnly

\* The VopStats the backend answers with while the verification the page
\* started is under way, and once it has finished.
SrvVopStats ==
  [total_eligible |-> MaxPending,
   pending |-> IF srvVopDone THEN 0 ELSE MaxPending]

\* The backend finishes the verification that api.verifyVop started (any time
\* after the request was made).
BackendFinish ==
  /\ ~srvVopDone
  /\ verifyReqs > 0 \/ vopClosed \/ \E l \in VopLoopIds : LoopActive(vopLoops[l])
  /\ srvVopDone' = TRUE
  /\ UNCHANGED <<dtLive, dtPageVars, dtInitVars, dtSyncVars, dtBillVars, toast,
                 tornPolls, verifyReqs, vopLoops, vopPolls, vopPollAt, vopClosed,
                 vopIssued>>
  /\ UNCHANGED dtEditVars
  /\ UNCHANGED pollLog
  /\ UNCHANGED dbVars
  /\ UNCHANGED debtors
  /\ UNCHANGED filterQ
  /\ UNCHANGED dbTouched
  /\ UNCHANGED vopOverlap
  /\ DetailOnly

\* One more poll of the billing interval in flight (counted up to the bound).
AddBillPoll(n) == IF n < MaxBillPolls THEN n + 1 ELSE n

\* The billing interval's callback up to its await (lines 219-220).
BillingTick ==
  /\ billIv
  /\ billPolls' = AddBillPoll(billPolls)
  /\ tornPolls' = IF dtLive THEN tornPolls ELSE tornPolls \cup {"billing"}
  /\ UNCHANGED <<dtLive, dtPageVars, dtInitVars, dtSyncVars, dtVopVars, toast,
                 billIv, billStale, billDone>>
  /\ UNCHANGED dtEditVars
  /\ UNCHANGED pollLog
  /\ UNCHANGED dbVars
  /\ UNCHANGED debtors
  /\ UNCHANGED filterQ
  /\ UNCHANGED dbTouched
  /\ UNCHANGED vopOverlap
  /\ DetailOnly

\* The billing interval's callback after its await (lines 166-175, 221-224),
\* and the billing effect for the stats stored.  stale says the poll answered
\* is one issued before the interval now live was set.
\* fetchBillingStats hands its caller the data, or null when the request
\* failed.
BillingData(ok, b) == IF ok THEN b ELSE "null"

\* The interval callback's test `data && !data.is_processing`.
BillingDoneMutant(data) == data # "processing"
BillingDone(data) == data # "null" /\ data = "idle"

BillingPollResponse(ok, b, stale) ==
  /\ IF stale THEN billStale > 0 ELSE billPolls > billStale
  /\ billPolls' = billPolls - 1
  /\ billingStats' = IF ok THEN SetState(b, billingStats) ELSE billingStats
  /\ billIv' = IF ok THEN BillEffect(billingStats')
                ELSE IF BillingDone(BillingData(ok, b)) /\ ~stale THEN FALSE
                ELSE billIv
  /\ toast' = IF BillingDone(BillingData(ok, b)) THEN "billingDone" ELSE toast
  /\ pollLog' = IF ok THEN "none" ELSE "billing"
  /\ BillEpisode(billIv', billPolls', IF stale THEN billStale - 1 ELSE billStale,
                 IF BillingDone(BillingData(ok, b)) /\ ~stale
                    /\ billDone < MaxBillPolls
                 THEN billDone + 1 ELSE billDone)
  /\ UNCHANGED <<dtLive, upload, stats, vopStats, loading, validating, syncing,
                 verifyingVop, tornPolls>>
  /\ UNCHANGED <<dtInitVars, dtSyncVars, dtVopVars>>
  /\ UNCHANGED dtEditVars
  /\ UNCHANGED dbVars
  /\ UNCHANGED debtors
  /\ UNCHANGED filterQ
  /\ UNCHANGED dbTouched
  /\ UNCHANGED vopOverlap
  /\ DetailOnly

\* What the handlers of the debtor table leave alone.
EditOnly ==
  /\ UNCHANGED <<dtLive, upload, vopStats, billingStats, loading, validating,
                 syncing, verifyingVop, tornPolls>>
  /\ UNCHANGED <<dtInitVars, dtSyncVars, dtVopVars, dtBillVars>>
  /\ UNCHANGED pollLog
  /\ UNCHANGED dbVars
  /\ UNCHANGED vopOverlap
  /\ DetailOnly

\* A mutating handler's record when it ends after its validation-stats fetch.
EditLog(kind, ok, ready) ==
  [kind |-> kind, fetched |-> TRUE, ok |-> ok,
   result |-> IF ok THEN ready ELSE NoReady]

\* handleSave up to its first await (lines 364-369), with a debtor being
\* edited; saving is editPc being one of its two awaits.
\* setDebtors(prev => ...) of handleSave (line 370) and handleDelete (line
\* 389): it runs as soon as the update or the delete has resolved, before
\* the validation stats are fetched.
RowsSet(ok) == ok /\ dtLive

handleSave ==
  /\ Rendered /\ editPc = "idle"
  /\ editPc' = "saveUpdate"
  /\ dbTouched' = FALSE
  /\ UNCHANGED <<stats, toast, mutLog>>
  /\ UNCHANGED debtors
  /\ UNCHANGED filterQ
  /\ EditOnly

\* handleSave after await api.updateDebtor (lines 369-372, 376-381).
SaveUpdateResponse(ok) ==
  /\ editPc = "saveUpdate"
  /\ editPc' = IF ok THEN "saveStats" ELSE "idle"
  /\ toast' = IF ok THEN toast ELSE "saveFailed"
  /\ dbTouched' = RowsSet(ok)
  /\ UNCHANGED <<stats, mutLog>>
  /\ UNCHANGED debtors
  /\ UNCHANGED filterQ
  /\ EditOnly

\* handleSave after await api.getUploadValidationStats (lines 372-381).
SaveStatsResponse(ok, ready) ==
  /\ editPc = "saveStats"
  /\ editPc' = "idle"
  /\ stats' = IF ok THEN SetState(ready, stats) ELSE stats
  /\ toast' = IF ok THEN "saved" ELSE "saveFailed"
  /\ mutLog' = EditLog("save", ok, ready)
  /\ dbTouched' = FALSE
  /\ UNCHANGED debtors
  /\ UNCHANGED filterQ
  /\ EditOnly

\* handleDelete up to its first await (lines 384-388): accept is the user's
\* answer to confirm().
handleDelete(accept) ==
  /\ Rendered /\ editPc = "idle"
  /\ editPc' = IF accept THEN "deleteCall" ELSE "idle"
  /\ dbTouched' = FALSE
  /\ UNCHANGED <<stats, toast, mutLog>>
  /\ UNCHANGED debtors
  /\ UNCHANGED filterQ
  /\ EditOnly

\* handleDelete after await api.deleteDebtor (lines 388-391, 396-398).
DeleteResponse(ok) ==
  /\ editPc = "deleteCall"
  /\ editPc' = IF ok THEN "deleteStats" ELSE "idle"
  /\ toast' = IF ok THEN toast ELSE "deleteFailed"
  /\ dbTouched' = RowsSet(ok)
  /\ UNCHANGED <<stats, mutLog>>
  /\ UNCHANGED debtors
  /\ UNCHANGED filterQ
  /\ EditOnly

\* handleDelete after await api.getUploadValidationStats (lines 391-398).
DeleteStatsResponse(ok, ready) ==
  /\ editPc = "deleteStats"
  /\ editPc' = "idle"
  /\ stats' = IF ok THEN SetState(ready, stats) ELSE stats
  /\ toast' = IF ok THEN "deleted" ELSE "deleteFailed"
  /\ mutLog' = EditLog("delete", ok, ready)
  /\ dbTouched' = FALSE
  /\ UNCHANGED debtors
  /\ UNCHANGED filterQ
  /\ EditOnly

\* handleFilterChargebacks up to its first await (lines 334-343): chargebacked
\* says stats.chargebacked is not 0, accept is the user's answer to confirm().
handleFilterChargebacks(chargebacked, accept) ==
  /\ Rendered /\ editPc = "idle"
  /\ editPc' = IF stats # NoReady /\ chargebacked /\ accept
                THEN "filterCall" ELSE "idle"
  /\ filterQ' = IF stats # NoReady /\ chargebacked /\ accept THEN search ELSE ""
  /\ UNCHANGED <<stats, toast, mutLog>>
  /\ UNCHANGED debtors
  /\ UNCHANGED dbTouched
  /\ EditOnly

\* handleFilterChargebacks after await api.filterChargebacks (lines 343-349,
\* 352-356): the toast of the removal comes before the two fetches.
FilterResponse(ok) ==
  /\ editPc = "filterCall"
  /\ editPc' = IF ok THEN "filterAll" ELSE "idle"
  /\ toast' = IF ok THEN "filtered" ELSE "filterFailed"
  /\ filterQ' = IF ok THEN filterQ ELSE ""
  /\ UNCHANGED <<stats, mutLog>>
  /\ UNCHANGED debtors
  /\ UNCHANGED dbTouched
  /\ EditOnly

\* handleFilterChargebacks after await Promise.all of the debtors and the
\* validation-stats fetches (lines 346-356): one rejection rejects both.
FilterAllResponse(okDebtors, okStats, ready) ==
  /\ editPc = "filterAll"
  /\ editPc' = "idle"
  /\ stats' = IF okDebtors /\ okStats THEN SetState(ready, stats) ELSE stats
  /\ toast' = IF okDebtors /\ okStats THEN toast ELSE "filterFailed"
  /\ mutLog' = EditLog("filter", okDebtors /\ okStats, ready)
  /\ debtors' = IF okDebtors /\ okStats
                 THEN SetState(Query(1, filterQ), debtors) ELSE debtors
  /\ filterQ' = ""
  /\ UNCHANGED dbTouched
  /\ EditOnly

\* The frame of the debtor table's actions.
ListOnly ==
  /\ UNCHANGED <<dtLive, dtPageVars, dtInitVars, dtSyncVars, dtVopVars,
                 dtBillVars, dtEditVars, toast, tornPolls, pollLog, filterQ,
                 dbTouched>>
  /\ UNCHANGED vopOverlap
  /\ DetailOnly

\* The search box's onChange (line 729): setSearch, and the effect of lines
\* 230-263 is cleaned up (its timer cleared) and run again.
handleSearchChange(text) ==
  /\ Rendered /\ text # search
  /\ search' = text
  /\ dbTimer' = ListEffect(dtLive, loading, currentPage, text, "search")
  /\ UNCHANGED <<debtors, currentPage, tableLoading, dbReqs, dbSeq, dbShown,
                 dbIssue, dbFailed>>
  /\ ListOnly

\* handlePageClick (lines 448-450): setCurrentPage, and the effect is cleaned
\* up and run again.  The pagination is drawn from the meta and links of an
\* answer (lines 842-850), so there is none before the table has rows.
handlePageClick(page) ==
  /\ Rendered /\ page # currentPage
  /\ debtors # NoRows
  /\ currentPage' = page
  /\ dbTimer' = ListEffect(dtLive, loading, page, search, "page")
  /\ UNCHANGED <<debtors, search, tableLoading, dbReqs, dbSeq, dbShown,
                 dbIssue, dbFailed>>
  /\ ListOnly

\* DebounceMs milliseconds pass with the timer pending.
ListAdvance ==
  /\ dbTimer.live /\ dbTimer.wait > 0
  /\ dbTimer' = [dbTimer EXCEPT !.wait = 0, !.ran = dbTimer.wait]
  /\ UNCHANGED <<debtors, search, currentPage, tableLoading, dbReqs, dbSeq,
                 dbShown, dbIssue, dbFailed>>
  /\ ListOnly

\* The effect's timer fires (lines 258-260): fetchData up to its await (lines
\* 236-243), with the query of the closure.
ListTimerFire ==
  /\ dbTimer.live /\ dbTimer.wait = 0
  /\ dbSeq < MaxFetches
  /\ dbSeq' = dbSeq + 1
  /\ dbReqs' = dbReqs \cup {[seq |-> dbSeq + 1, q |-> dbTimer.q]}
  /\ dbIssue' = [cause |-> dbTimer.cause, ran |-> dbTimer.ran]
  /\ tableLoading' = SetState(TRUE, tableLoading)
  /\ dbTimer' = NoTimer
  /\ UNCHANGED <<debtors, search, currentPage, dbShown, dbFailed>>
  /\ ListOnly

\* The answers to getUploadDebtors: resolved, rejected with the 401 that
\* ApiClient.request turns into the redirect to /login, or rejected otherwise.
ListOutcomes == {"ok", "unauthorized", "error"}

\* fetchData after its await (lines 244-255): the rows of the answer replace
\* the table's, whatever was requested since; a rejection is logged to the
\* console.
DebtorsResponse(r, outcome) ==
  /\ r \in dbReqs
  /\ dbReqs' = dbReqs \ {r}
  /\ debtors' = IF outcome = "ok" THEN SetState(r.q, debtors) ELSE debtors
  /\ dbShown' = IF outcome = "ok" /\ dtLive THEN r.seq ELSE dbShown
  /\ dbFailed' = IF outcome = "ok" THEN dbFailed ELSE dbFailed \cup {outcome}
  /\ tableLoading' = SetState(FALSE, tableLoading)
  /\ UNCHANGED <<search, currentPage, dbTimer, dbSeq, dbIssue>>
  /\ ListOnly

\* The view is torn down (a client-side navigation away): the effects'
\* cleanups run, which clears the billing interval (line 227) and the timer of
\* the debtor-list effect (line 262).  The timers of handleVerifyVop belong to
\* no effect.
Teardown ==
  /\ dtLive
  /\ dtLive' = FALSE
  /\ billIv' = FALSE
  /\ dbTimer' = NoTimer
  /\ UNCHANGED <<search, currentPage, tableLoading, dbReqs, dbSeq, dbShown,
                 dbIssue, dbFailed>>
  /\ UNCHANGED <<dtPageVars, dtInitVars, dtSyncVars, dtVopVars, toast, tornPolls,
                 billPolls, billStale, billDone>>
  /\ UNCHANGED dtEditVars
  /\ UNCHANGED pollLog
  /\ UNCHANGED debtors
  /\ UNCHANGED filterQ
  /\ UNCHANGED dbTouched
  /\ UNCHANGED vopOverlap
  /\ DetailOnly

\* The page at its first render: loading, and initPage's api.getUpload in flight.
DetailInit ==
  /\ dtLive = TRUE
  /\ initPc = "upload" /\ allWait = {}
  /\ initIssued = {"upload"} /\ initOk = {} /\ initErr = {}
  /\ upload = FALSE /\ stats = NoReady /\ vopStats = NoStats /\ billingStats = "null"
  /\ loading = TRUE /\ validating = FALSE /\ syncing = FALSE /\ verifyingVop = FALSE
  /\ syncPc = "idle" /\ syncCalls = 0 /\ lastSync = NoSync /\ syncAnswer = "none"
  /\ verifyReqs = 0 /\ vopLoops = [l \in VopLoopIds |-> NoLoop] /\ vopPolls = 0
  /\ vopPollAt = 0 /\ vopClosed = FALSE
  /\ vopIssued = [l \in VopLoopIds |-> 0] /\ srvVopDone = FALSE
  /\ billIv = FALSE /\ billPolls = 0 /\ billStale = 0 /\ billDone = 0
  /\ toast = "none" /\ tornPolls = {}
  /\ editPc = "idle" /\ mutLog = NoMut
  /\ pollLog = "none"
  /\ debtors = NoRows /\ search = "" /\ currentPage = 1 /\ tableLoading = FALSE
  /\ dbTimer = NoTimer /\ dbReqs = {} /\ filterQ = ""
  /\ dbSeq = 0 /\ dbShown = 0 /\ dbIssue = NoIssue /\ dbFailed = {}
  /\ dbTouched = FALSE
  /\ vopOverlap = FALSE

\* The VopStats answers while the timers are watched: verification under way,
\* and verification finished.
VopPollValues ==
  { [total_eligible |-> MaxPending, pending |-> MaxPending],
    [total_eligible |-> MaxPending, pending |-> 0] }

\* The page from its mount through its init sequence to the sync gate, with
\* the billing interval; the timers of handleVerifyVop are armed but not run.
DetailStep ==
  \/ \E ok \in BOOLEAN : InitUploadResponse(ok)
  \/ \E ok \in BOOLEAN : InitValidateResponse(ok)
  \/ \E r \in {"debtors", "stats"}, ok \in BOOLEAN, ready \in ReadyCounts :
       InitAllResponse(r, ok, ready)
  \/ \E ok \in BOOLEAN, data \in VopValues : InitVopResponse(ok, data)
  \/ \E ok \in BOOLEAN, b \in BillingValues : InitBillingResponse(ok, b)
  \/ \E accept \in BOOLEAN : handleSync(accept)
  \/ \E o \in SyncOutcomes : SyncResponse(o)
  \/ \E ok \in BOOLEAN, b \in BillingValues : SyncBillingResponse(ok, b)
  \/ \E via \in {"button", "toast"} : handleVerifyVop(via)
  \/ \E ok \in BOOLEAN : VerifyResponse(ok)
  \/ BillingTick
  \/ \E ok \in BOOLEAN, b \in BillingValues, stale \in BOOLEAN :
       BillingPollResponse(ok, b, stale)
  \/ Teardown

\* The page from its mount through its init sequence to the polling loops:
\* verification started from the button, its timers run, and the billing
\* interval.
VopStep ==
  \/ \E ok \in BOOLEAN : InitUploadResponse(ok)
  \/ \E ok \in BOOLEAN : InitValidateResponse(ok)
  \/ \E r \in {"debtors", "stats"}, ok \in BOOLEAN : InitAllResponse(r, ok, 1)
  \/ \E ok \in BOOLEAN, data \in VopPollValues : InitVopResponse(ok, data)
  \/ \E ok \in BOOLEAN, b \in BillingValues : InitBillingResponse(ok, b)
  \/ handleVerifyVop("button")
  \/ \E ok \in BOOLEAN : VerifyResponse(ok)
  \/ \E l \in VopLoopIds : VopAdvance(l)
  \/ \E l \in VopLoopIds : VopIntervalTick(l)
  \/ \E l \in VopLoopIds : VopTimeoutFire(l)
  \/ \E ok \in BOOLEAN, data \in VopPollValues : VopPollResponse(ok, data)
  \/ BillingTick
  \/ \E ok \in BOOLEAN, b \in BillingValues, stale \in BOOLEAN :
       BillingPollResponse(ok, b, stale)
  \/ Teardown

\* The page with the backend's verification followed: every VopStats answer
\* is the backend's state when it answers, the polls of the timers are
\* answered, and the backend may finish the verification.
VopLiveStep ==
  \/ \E ok \in BOOLEAN : InitUploadResponse(ok)
  \/ \E ok \in BOOLEAN : InitValidateResponse(ok)
  \/ \E r \in {"debtors", "stats"}, ok \in BOOLEAN : InitAllResponse(r, ok, 1)
  \/ \E ok \in BOOLEAN : InitVopResponse(ok, SrvVopStats)
  \/ \E ok \in BOOLEAN, b \in BillingValues : InitBillingResponse(ok, b)
  \/ handleVerifyVop("button")
  \/ \E ok \in BOOLEAN : VerifyResponse(ok)
  \/ \E l \in VopLoopIds : VopAdvance(l)
  \/ \E l \in VopLoopIds : VopIntervalTick(l)
  \/ \E l \in VopLoopIds : VopTimeoutFire(l)
  \/ VopPollResponse(TRUE, SrvVopStats)
  \/ BackendFinish
  \/ Teardown

\* The page from its mount through its init sequence to the actions that
\* change the upload: the debtor table's handlers and the sync.
EditStep ==
  \/ \E ok \in BOOLEAN : InitUploadResponse(ok)
  \/ \E ok \in BOOLEAN : InitValidateResponse(ok)
  \/ \E r \in {"debtors", "stats"}, ok \in BOOLEAN, ready \in ReadyCounts :
       InitAllResponse(r, ok, ready)
  \/ \E ok \in BOOLEAN : InitVopResponse(ok, SrvVopStats)
  \/ \E ok \in BOOLEAN, b \in BillingValues : InitBillingResponse(ok, b)
  \/ handleSave
  \/ \E ok \in BOOLEAN : SaveUpdateResponse(ok)
  \/ \E ok \in BOOLEAN, ready \in ReadyCounts : SaveStatsResponse(ok, ready)
  \/ \E accept \in BOOLEAN : handleDelete(accept)
  \/ \E ok \in BOOLEAN : DeleteResponse(ok)
  \/ \E ok \in BOOLEAN, ready \in ReadyCounts : DeleteStatsResponse(ok, ready)
  \/ \E chargebacked \in BOOLEAN, accept \in BOOLEAN :
       handleFilterChargebacks(chargebacked, accept)
  \/ \E ok \in BOOLEAN : FilterResponse(ok)
  \/ \E okDebtors \in BOOLEAN, okStats \in BOOLEAN, ready \in ReadyCounts :
       FilterAllResponse(okDebtors, okStats, ready)
  \/ \E accept \in BOOLEAN : handleSync(accept)
  \/ \E o \in SyncOutcomes : SyncResponse(o)
  \/ \E ok \in BOOLEAN, b \in BillingValues : SyncBillingResponse(ok, b)
  \/ Teardown

\* The page from its mount through its init sequence to the debtor table:
\* the search box, the pagination, the effect's timer and fetches, and the
\* chargeback filter.
ListStep ==
  \/ \E ok \in BOOLEAN : InitUploadResponse(ok)
  \/ \E ok \in BOOLEAN : InitValidateResponse(ok)
  \/ \E r \in {"debtors", "stats"}, ok \in BOOLEAN : InitAllResponse(r, ok, 1)
  \/ \E ok \in BOOLEAN : InitVopResponse(ok, SrvVopStats)
  \/ \E ok \in BOOLEAN : InitBillingResponse(ok, "idle")
  \/ \E text \in SearchTexts : handleSearchChange(text)
  \/ \E page \in Pages : handlePageClick(page)
  \/ ListAdvance
  \/ ListTimerFire
  \/ \E r \in dbReqs, outcome \in ListOutcomes : DebtorsResponse(r, outcome)
  \/ \E accept \in BOOLEAN : handleFilterChargebacks(TRUE, accept)
  \/ \E ok \in BOOLEAN : FilterResponse(ok)
  \/ \E okDebtors \in BOOLEAN, okStats \in BOOLEAN :
       FilterAllResponse(okDebtors, okStats, 1)
  \/ Teardown

\* The busy flags of the two pages: the handlers that set one, and the
\* answers to their requests.  saving and filtering are read off editPc.
saving == editPc \in {"saveUpdate", "saveStats"}
filtering == editPc \in {"filterCall", "filterAll"}

\* The two pages are routes of their own and never on screen together: a
\* behaviour uses the handlers of the uploads page while the detail page
\* has not finished loading, or those of the detail page with the uploads
\* page left as it was.
OnUploads == loading
OnDetail ==
  /\ upSid = 0 /\ file = NoFile /\ uploadReq = NoFile
  /\ uploadStatus = "null" /\ lastReject = "none"

BusyStep ==
  \/ \E ok \in BOOLEAN : InitUploadResponse(ok)
  \/ \E ok \in BOOLEAN : InitValidateResponse(ok)
  \/ \E r \in {"debtors", "stats"}, ok \in BOOLEAN : InitAllResponse(r, ok, 1)
  \/ \E ok \in BOOLEAN : InitVopResponse(ok, SrvVopStats)
  \/ \E ok \in BOOLEAN : InitBillingResponse(ok, "idle")
  \/ OnDetail /\ handleSync(TRUE)
  \/ \E o \in {"queued", "error"} : SyncResponse(o)
  \/ \E ok \in BOOLEAN : SyncBillingResponse(ok, "idle")
  \/ OnDetail /\ handleVerifyVop("button")
  \/ \E ok \in BOOLEAN : VerifyResponse(ok)
  \/ OnDetail /\ handleSave
  \/ \E ok \in BOOLEAN : SaveUpdateResponse(ok)
  \/ \E ok \in BOOLEAN : SaveStatsResponse(ok, 1)
  \/ OnDetail /\ handleFilterChargebacks(TRUE, TRUE)
  \/ \E ok \in BOOLEAN : FilterResponse(ok)
  \/ \E okDebtors \in BOOLEAN, okStats \in BOOLEAN :
       FilterAllResponse(okDebtors, okStats, 1)
  \/ Teardown
  \/ OnUploads /\ \E f \in PollFiles \cup {NoFile} : handleFileChange(f)
  \/ OnUploads /\ handleSubmit
  \/ \E o \in UploadOutcomes : UploadResponse(o)

(***************************************************************************)
(*                           Specifications                                *)
(***************************************************************************)

InitApi == ApiInit /\ UploadsInit /\ DetailInit

NextApi == ApiStep

SpecApi == InitApi /\ [][NextApi]_vars

\* The uploads page of a logged-in user.
InitUploads ==
  /\ token = NoToken /\ lsToken = "tokA" /\ href = "/admin" /\ navPending = FALSE
  /\ apiReqs = {} /\ apiLast = NoCall /\ apiDone = 0 /\ escaped = {}
  /\ UploadsInit
  /\ DetailInit

NextUploads == UploadsStep

SpecUploads == InitUploads /\ [][NextUploads]_vars

NextFiles == FilesStep

SpecFiles == InitUploads /\ [][NextFiles]_vars

\* The upload-detail page of a logged-in user.
InitDetail == InitUploads

NextDetail == DetailStep

SpecDetail == InitDetail /\ [][NextDetail]_vars

NextVop == VopStep

SpecVop == InitDetail /\ [][NextVop]_vars

NextEdit == EditStep

SpecEdit == InitDetail /\ [][NextEdit]_vars

\* The upload-detail page with its debtor table.
NextList == ListStep

SpecList == InitDetail /\ [][NextList]_vars

\* The busy flags, with every request that was issued answered in the end.
NextBusy == BusyStep

BusyFairness ==
  /\ WF_vars(\E ok \in BOOLEAN : InitUploadResponse(ok))
  /\ WF_vars(\E ok \in BOOLEAN : InitValidateResponse(ok))
  /\ WF_vars(\E r \in {"debtors", "stats"}, ok \in BOOLEAN :
               InitAllResponse(r, ok, 1))
  /\ WF_vars(\E ok \in BOOLEAN : InitVopResponse(ok, SrvVopStats))
  /\ WF_vars(\E ok \in BOOLEAN : InitBillingResponse(ok, "idle"))
  /\ WF_vars(\E o \in {"queued", "error"} : SyncResponse(o))
  /\ WF_vars(\E ok \in BOOLEAN : SyncBillingResponse(ok, "idle"))
  /\ WF_vars(\E ok \in BOOLEAN : VerifyResponse(ok))
  /\ WF_vars(\E ok \in BOOLEAN : SaveUpdateResponse(ok))
  /\ WF_vars(\E ok \in BOOLEAN : SaveStatsResponse(ok, 1))
  /\ WF_vars(\E ok \in BOOLEAN : FilterResponse(ok))
  /\ WF_vars(\E okDebtors \in BOOLEAN, okStats \in BOOLEAN :
               FilterAllResponse(okDebtors, okStats, 1))
  /\ WF_vars(\E o \in UploadOutcomes : UploadResponse(o))

SpecBusy == InitDetail /\ [][NextBusy]_vars /\ BusyFairness

NextVopLive == VopLiveStep

\* The timers of handleVerifyVop fire when they are due, time passes, and a
\* fetch that was made is answered.
VopLiveFairness ==
  /\ WF_vars(\E l \in VopLoopIds : VopAdvance(l))
  /\ WF_vars(\E l \in VopLoopIds : VopIntervalTick(l))
  /\ WF_vars(\E l \in VopLoopIds : VopTimeoutFire(l))
  /\ WF_vars(VopPollResponse(TRUE, SrvVopStats))

SpecVopLive == InitDetail /\ [][NextVopLive]_vars /\ VopLiveFairness

(***************************************************************************)
(*                               Claims                                    *)
(***************************************************************************)

\* C10: on every request path of the ApiClient (request() and uploadFile()) a
\* 401 response clears the token in memory and in localStorage, assigns
\* location.href = '/login', rejects with 'Unauthorized' and starts no new
\* fetch (no retry), so that isAuthenticated() is false right after; and
\* isAuthenticated() turns true again only by a login that resolved.
C10_Global401 ==
  [][ /\ (apiDone' = apiDone + 1 /\ apiLast'.status = 401) =>
          /\ token' = NoToken /\ lsToken' = NoToken
          /\ href' = "/login"
          /\ apiLast'.outcome = "Unauthorized"
          /\ apiReqs' \subseteq apiReqs
          /\ ~isAuthenticated'
      /\ (~isAuthenticated /\ isAuthenticated') =>
          /\ apiDone' = apiDone + 1
          /\ apiLast'.ep = "login" /\ apiLast'.outcome = "resolved" ]_vars

\* C10 witness: uploadFile() met a 401 while a token was stored, and the token
\* is gone from both places with the redirect assigned.
C10_Witness ==
  /\ apiLast.via = "uploadFile" /\ apiLast.status = 401 /\ apiLast.hadToken
  /\ token = NoToken /\ lsToken = NoToken /\ href = "/login"

\* C1: whenever handleSync is invoked while the client's VOP stats have
\* total_eligible > 0 and pending > 0, it shows no confirmation prompt and sends
\* no sync request, the toast it leaves is the one with the 'Verify VOP'
\* action, and the token, the location and the page's state are unchanged.
C1_LocalRefusal ==
  [][ ( /\ syncCalls' # syncCalls
        /\ vopStats # NoStats
        /\ vopStats.total_eligible > 0 /\ vopStats.pending > 0 ) =>
      ( /\ ~lastSync'.prompted /\ ~lastSync'.sent
        /\ syncPc' = "idle"
        /\ toast' \in GateToasts
        /\ UNCHANGED <<apiVars, dtLive, dtPageVars>> ) ]_vars

\* C1 witness: handleSync was invoked with 1 of 1 eligible debtors pending and
\* refused; the gate toast is up and the session is as it was.
C1_Witness ==
  /\ lastSync.eligible > 0 /\ lastSync.pending > 0
  /\ ~lastSync.prompted /\ ~lastSync.sent
  /\ toast = "gateLocal" /\ syncPc = "idle" /\ ~syncing
  /\ lsToken # NoToken /\ href = "/admin" /\ dtLive

\* C2: on every VopStats value handleSync lets the action through (reaches its
\* confirmation prompt) exactly when total_eligible = 0 or pending = 0, which
\* is what canSync computes.
C2_SamePredicate ==
  /\ lastSync # NoSync =>
       (lastSync.prompted <=> (lastSync.eligible = 0 \/ lastSync.pending = 0))
  /\ canSync <=> ~VopGate(vopPending)

\* C5: initPage issues the validate request only after the upload fetch
\* resolved, the debtors and validation-stats requests only after validate
\* resolved, and the VOP-stats request only after both of those resolved; when
\* the upload fetch or validate rejected, none of the debtors, validation-stats
\* and VOP-stats requests is issued.
C5_InitOrder ==
  /\ "validate" \in initIssued => "upload" \in initOk
  /\ initIssued \cap {"debtors", "stats"} # {} => "validate" \in initOk
  /\ "vop" \in initIssued => {"debtors", "stats"} \subseteq initOk
  /\ initErr \cap {"upload", "validate"} # {} =>
       initIssued \cap {"debtors", "stats", "vop"} = {}

\* C5 witness: the whole sequence ran, the VOP-stats request answered after the
\* debtors and the validation stats.
C5_Witness ==
  /\ {"upload", "validate", "debtors", "stats", "vop"} \subseteq initOk
  /\ initErr = {}

\* C6: every poll the timers of one handleVerifyVop issue is issued no later
\* than VopBudgetSecs after they were armed, and the interval is never live once
\* its timeout has fired.
C6_BoundedVopPolling ==
  /\ vopPollAt =< VopBudgetSecs
  /\ \A l \in VopLoopIds :
       vopLoops[l].iv => vopLoops[l].to /\ vopLoops[l].e =< VopBudgetSecs

\* C6 witness: a loop has run to its timeout, its last poll was issued at
\* exactly VopBudgetSecs, and no timer of it is left.
C6_Witness ==
  /\ vopClosed /\ vopPollAt = VopBudgetSecs
  /\ \A l \in VopLoopIds : ~LoopActive(vopLoops[l])

\* C8: once the upload-detail view is torn down, no timer of the VOP loop or of
\* the billing loop is live and neither loop has issued a poll since.
C8_TeardownCancels ==
  ~dtLive =>
    /\ tornPolls = {}
    /\ ~billIv
    /\ \A l \in VopLoopIds : ~LoopActive(vopLoops[l])

\* C3: once a status fetch of the mounted UploadProgress has read 'completed'
\* or 'failed', that instance issues no further GET of the upload's status.
C3_NoGetAfterTerminal == ~lateGets

\* C4: the mounted UploadProgress invokes its terminal callback (onComplete or
\* onError) exactly once after the terminal status was read: never a second
\* time.
C4_CallbackOnce == termSeen => cbCount = 1

\* C7: whenever UploadProgress is not shown (after dismissProgress, the 3 s
\* auto-dismiss or any other unmount) no interval timer is live, and while it
\* stays unshown no status request is issued, whatever fetches were in flight
\* when it went away.
C7_PollingCancelled ==
  [][ activeUploadId' = 0 =>
        /\ iv' = NoIv
        /\ ~orphanGets'
        /\ activeUploadId = 0 => GetsInFlight(gets') =< GetsInFlight(gets) ]_vars

\* C7 witness: the progress view is gone while a status fetch of its instance
\* is still in flight, and its interval is cleared.
C7_Witness ==
  /\ upSid > 0 /\ activeUploadId = 0
  /\ gets.plain[upSid] > 0
  /\ iv = NoIv

\* What C9 calls the file's extension being an allowed one.
HasAllowedExtension(f) == Extension(f.name) \in validExtensions

HasAllowedMime(f) == f.type \in validMimeTypes

\* C9 as stated: no file over 50MB, and no file whose extension is outside
\* {.csv, .txt, .xlsx, .xls}, is ever handed to api.uploadFile.
C9_AsStated ==
  uploadReq # NoFile => ~TooLarge(uploadReq) /\ HasAllowedExtension(uploadReq)

\* C9, amended: no file over 50MB, and no file that has neither an allowed
\* extension nor an allowed MIME type, is ever selected or handed to
\* api.uploadFile; and every refusal of a file sets an error status.
C9_FailFast ==
  /\ \A f \in {file, uploadReq} \ {NoFile} :
        ~TooLarge(f) /\ (HasAllowedExtension(f) \/ HasAllowedMime(f))
  /\ ~silentReject

\* C9 witness: a file of a foreign type was refused with an error status, with
\* no upload request made.
C9_Witness ==
  /\ lastReject = "type" /\ uploadStatus = "error"
  /\ file = NoFile /\ uploadReq = NoFile /\ upSid = 0

\* C11: the billing interval is live only while the stored billing stats say
\* is_processing, and the polls of one interval announce 'Billing processing
\* completed!' at most once, also when two of them are in flight together.
C11_AnnouncedOnce ==
  /\ billIv => billingStats = "processing"
  /\ billDone =< 1

\* C12: whenever handleSync has had the 'queued' answer of api.syncToGateway
\* and its fetch of the billing stats has settled, on a page still mounted,
\* the billing interval is live, whatever that fetch returned.
C12_QueuedStartsPolling ==
  [][ (syncPc = "awaitBilling" /\ syncPc' = "idle" /\ dtLive) => billIv' ]_vars

C14_ConfirmedSync ==
  [][ /\ (syncPc' = "awaitSync" /\ syncPc # "awaitSync") =>
          /\ syncCalls' # syncCalls
          /\ lastSync'.prompted /\ lastSync'.accepted /\ lastSync'.sent
      /\ (syncCalls' # syncCalls /\ ~lastSync'.accepted) =>
          /\ ~lastSync'.sent
          /\ syncPc' = "idle" /\ ~syncing' ]_vars

\* C14 witness: the prompt of the last invocation was declined: no request is
\* under way and syncing is false.
C14_Witness ==
  /\ lastSync.prompted /\ ~lastSync.accepted /\ ~lastSync.sent
  /\ syncPc = "idle" /\ ~syncing /\ dtLive

\* C15: whenever the backend answers the sync request with the 422 whose
\* payload says vop_required, handleSync leaves the toast with the vop_pending
\* count and the 'Verify VOP' action, not the generic failure toast, and calls
\* fetchVopStats.
C15_BackendGateToast ==
  [][ (syncPc = "awaitSync" /\ syncPc' # "awaitSync"
         /\ syncAnswer' = "vop_required") =>
        (toast' = "gateBackend" /\ syncPc' = "awaitVop") ]_vars

\* C16: every debtor save, debtor delete, chargeback filter and sync that ends
\* with all its requests resolved, on a page still mounted, has fetched the
\* validation stats and leaves the page's stats at what that fetch answered.
C16_StatsRefreshed ==
  [][ (mutLog' # mutLog /\ mutLog'.ok /\ dtLive) =>
        (mutLog'.fetched /\ stats' = mutLog'.result) ]_vars

\* C17: when api.validateUpload rejects during initPage on a mounted page, the
\* 'Failed to load upload' toast is shown and initPage is over; and from then
\* on, while the page is mounted, the upload fetched before is in state, the
\* stats are null as at the start, none of the debtors, validation-stats, VOP
\* and billing requests of initPage was issued, and loading and validating
\* are both false.
C17_ValidateFailure ==
  [][ /\ (initPc = "validate" /\ "validate" \in initErr' /\ dtLive) =>
          (toast' = "loadFailed" /\ initPc' = "done")
      /\ ("validate" \in initErr' /\ dtLive') =>
          /\ upload' /\ stats' = NoReady
          /\ initIssued' = {"upload", "validate"}
          /\ ~loading' /\ ~validating' ]_vars

\* C17 witness: validate was rejected after the upload had been stored; the
\* error toast is up, the upload is shown, the stats are null and both flags
\* are false.
C17_Witness ==
  /\ "upload" \in initOk /\ "validate" \in initErr /\ dtLive
  /\ toast = "loadFailed" /\ upload /\ stats = NoReady
  /\ ~loading /\ ~validating

\* C18: no rejected promise escapes a handler: every handler and timer
\* callback that awaits a network call catches its rejection.
C18_NoEscape == escaped = {}

\* The polls that fit into the budget at the interval's spacing: 24.
VopMaxPolls == VopBudgetSecs \div VopPollSecs

\* C19: the timers that one handleVerifyVop armed make at most 24 fetchVopStats
\* calls in all, the timeout's last fetch counted, each at a multiple of 5
\* seconds after they were armed.
C19_PollCount ==
  /\ \A l \in VopLoopIds : vopIssued[l] =< VopMaxPolls
  /\ vopPollAt % VopPollSecs = 0

\* C20: once a status fetch of the mounted UploadProgress has thrown, the
\* parent has its error status (onError was reported) until the user changes
\* it, and that instance issues no further GET of the upload's status.
C20_ErrorTerminal == ~errGets

\* C21: a VOP-stats or billing-stats poll that fails changes nothing the page
\* holds: the stats stay as they were, no toast is shown, no completion is
\* counted, and the timers that issued the poll stay live, so that their next
\* tick polls again.
C21_FailedPollTolerated ==
  [][ /\ (vopPolls' < vopPolls /\ pollLog' = "vop") =>
           /\ vopStats' = vopStats
           /\ vopLoops' = vopLoops
           /\ toast' = toast
      /\ (billPolls' < billPolls /\ pollLog' = "billing") =>
           /\ billingStats' = billingStats
           /\ billIv' = billIv
           /\ billDone' = billDone
           /\ toast' = toast ]_vars

\* A billing poll has failed, its interval is live, and a later tick has
\* polled again.
C21_Witness ==
  /\ pollLog = "billing"
  /\ billIv
  /\ billPolls = MaxBillPolls
  /\ billStale = 0

\* C22: the answer to an older getUploadDebtors call of the effect never
\* overwrites the rows that the answer to a newer call has set: when the call
\* whose answer was applied last is older than the one applied before it,
\* the rows the table holds have not changed.
C22_NoStaleOverwrite == [][dbShown' < dbShown => debtors' = debtors]_vars

\* C23: a fetch whose timer was armed by a search change is issued after the
\* timer has run 300 ms, and a fetch whose timer was armed by a page change
\* is issued with no delay, whatever the search text.
C23_DebouncePolicy ==
  /\ dbIssue.cause = "search" => dbIssue.ran = DebounceMs
  /\ dbIssue.cause = "page" => dbIssue.ran = 0

\* C24: no user-initiated action fails without the redirect to /login or a
\* message: no debtor fetch that a search or page change started is rejected
\* (other than by a 401) with nothing shown.
C24_NoSilentFailure == "error" \notin dbFailed

\* C28: once the page is loaded, no timer is pending, no request is in flight
\* and no fetch has failed, the rows the table holds are the answer to the
\* query (currentPage, search).
C28_RowsMatchQuery ==
  (/\ Rendered /\ initPc = "done" /\ initErr = {}
   /\ dbTimer = NoTimer /\ dbReqs = {} /\ editPc = "idle"
   /\ dbFailed = {})
  => debtors = Query(currentPage, search)

\* C25: no sync request is sent from an enabled Sync button unless a VOP-stats
\* fetch has succeeded in the view: when a click on the enabled button sends
\* the request, vopStats is not null.
C25_UnknownVopClosed ==
  [][ (syncPc # "awaitSync" /\ syncPc' = "awaitSync" /\ SyncEnabled)
        => vopStats # NoStats ]_vars

\* C26: at most one interval armed by handleVerifyVop is live at any time:
\* no invocation arms its interval while the interval of an earlier one is
\* live.
C26_OneVopLoop ==
  /\ ~vopOverlap
  /\ Cardinality({l \in VopLoopIds : vopLoops[l].iv}) <= 1

\* C27: the auto-dismiss timer that the completion of one upload armed never
\* clears activeUploadId while it refers to another upload: when such a
\* timer fires, activeUploadId stays as it is.
C27_DismissOwnUpload ==
  [][ \A t \in dismissTimers :
        (t.left = 0 /\ t \notin dismissTimers'
           /\ activeUploadId # 0 /\ activeUploadId # t.sid)
        => activeUploadId' = activeUploadId ]_vars

\* C29: when handleSave ends with 'Failed to update debtor' or handleDelete
\* ends with 'Failed to delete debtor' on a table that has rows, the
\* invocation has not changed the rows.
C29_FailureChangedNothing ==
  [][ (/\ debtors # NoRows
       /\ editPc \in {"saveUpdate", "saveStats", "deleteCall", "deleteStats"}
       /\ editPc' = "idle"
       /\ toast' \in {"saveFailed", "deleteFailed"})
      => ~dbTouched ]_vars

\* C30: with every issued request answered in the end, each busy flag that
\* is true turns false again: loading, validating, syncing, verifyingVop,
\* saving and filtering of a detail page that stays mounted, and isUploading
\* of the uploads page.
C30_BusyFlagsClear ==
  /\ loading ~> (~loading \/ ~dtLive)
  /\ validating ~> (~validating \/ ~dtLive)
  /\ syncing ~> (~syncing \/ ~dtLive)
  /\ verifyingVop ~> (~verifyingVop \/ ~dtLive)
  /\ saving ~> (~saving \/ ~dtLive)
  /\ filtering ~> (~filtering \/ ~dtLive)
  /\ isUploading ~> ~isUploading

\* A sync that was sent has been answered with a failure on a mounted page,
\* and syncing is false again.
C30_Witness ==
  /\ dtLive /\ lastSync.sent
  /\ syncAnswer \notin SyncOk \cup {"none"}
  /\ syncPc = "idle" /\ ~syncing

====
